---- MODULE Spec2Model ----
(***************************************************************************)
(* Shape-to-route matching: the fallback-supervised search pipeline        *)
(* (ImprovedOfflineRouteService / FallbackRouteService), the ranking step  *)
(* (smartFilterAndRank), the useRouteSearch hook and the offline scoring   *)
(* engine (OfflineRouteService).                                           *)
(*                                                                         *)
(* Numbers: similarity, confidence and Math.random() values are fixed      *)
(* point, in thousandths (1000 = 1.0).  Drawing coordinates are pixels on  *)
(* an integer grid.                                                        *)
(***************************************************************************)
EXTENDS Integers, Sequences, FiniteSets, TLC

VARIABLES
  \* ---- one call of ImprovedOfflineRouteService.findMatchingRoutes ----
  drawing,      \* Point[][] argument
  creativity,   \* CreativityLevel argument
  pc,           \* where the call is suspended (the pending await)
  ways,         \* the ways of the primary Overpass response
  cands,        \* scored RouteCandidate[] handed to smartFilterAndRank
  routes,       \* the Route[] the call resolved with
  outcome,      \* "pending" | "resolved" | "rejected"
  log,          \* calls issued and stages entered, in order
  obs,          \* responses received from the collaborators, in order
  \* ---- a second call on the same arguments ----
  runNo, prevRoutes, prevObs, prevLog,
  \* ---- useRouteSearch ----
  hook,         \* the hook's React state
  reqs          \* the searchRoutes calls in flight

vars == <<drawing, creativity, pc, ways, cands, routes, outcome, log, obs,
          runNo, prevRoutes, prevObs, prevLog, hook, reqs>>

pipeVars == <<drawing, creativity, pc, ways, cands, routes, outcome, log, obs>>
rerunVars == <<runNo, prevRoutes, prevObs, prevLog>>
hookVars == <<hook, reqs>>

\* null / undefined
NULL == [null |-> TRUE]

\* ---------------------------------------------------------------- bounds
MaxWays == 6      \* ways in one Overpass response (pipeline)
MaxFbWays == 4    \* ways in the degraded stage's Overpass response
MaxReq == 2       \* overlapping searchRoutes calls
MaxRerunWays == 1 \* ways in one Overpass response when the call is repeated
MaxBatch == 3     \* ways in one Overpass response (offline engine)
MaxScoreBatch == 2 \* ways in one Overpass response with degenerate geometry
MaxTagged == 3     \* ways in one Overpass response with tags and failing paths
MaxStroke == 3     \* points in the stroke of an analysed drawing
MaxAiRoutes == 3   \* routes in one AI response
MaxGeomWays == 3   \* ways with or without geometry in the degraded stage's response

\* ------------------------------------------------------- generic helpers
Min2(a, b) == IF a <= b THEN a ELSE b
Max2(a, b) == IF a >= b THEN a ELSE b
Abs(a) == IF a < 0 THEN -a ELSE a

RECURSIVE SumSeq(_)
SumSeq(s) == IF s = <<>> THEN 0 ELSE Head(s) + SumSeq(Tail(s))

RECURSIVE Flat(_)
\* Array.prototype.flat() on an array of arrays
Flat(ss) == IF ss = <<>> THEN <<>> ELSE Head(ss) \o Flat(Tail(ss))

SeqsUpTo(S, n) == UNION {[1..k -> S] : k \in 0..n}

RECURSIVE ISqrtIn(_, _, _)
\* the largest r in lo..hi with r * r <= n, by bisection
ISqrtIn(n, lo, hi) ==
  IF lo >= hi THEN lo
  ELSE LET mid == (lo + hi + 1) \div 2
       IN IF mid * mid <= n THEN ISqrtIn(n, mid, hi) ELSE ISqrtIn(n, lo, mid - 1)
\* Math.sqrt on a fixed-point square, rounded down
ISqrt(n) == IF n <= 0 THEN 0 ELSE ISqrtIn(n, 0, Min2(n, 46340))

\* Array.prototype.slice(0, n)
Slice0(s, n) == SubSeq(s, 1, Min2(Len(s), n))

\* Math.round(x * 100) / 100 on thousandths
Round2(x) == ((x + 5) \div 10) * 10

Creativities == {"strict", "balanced", "creative"}

\* ------------------------------------------------------- analyzeShape
Pt(x, y) == [x |-> x, y |-> y]

SetMin(S) == CHOOSE m \in S : \A e \in S : m <= e
SetMax(S) == CHOOSE m \in S : \A e \in S : m >= e

\* shapeAnalysisService.analyzeShape: null for fewer than 3 points or a
\* bounding box with width < 1 or height < 1
AnalyzeShape(d) ==
  LET allPoints == Flat(d)
      xs == {allPoints[i].x : i \in 1..Len(allPoints)}
      ys == {allPoints[i].y : i \in 1..Len(allPoints)}
  IN IF Len(allPoints) < 3 THEN NULL
     ELSE LET width == SetMax(xs) - SetMin(xs)
              height == SetMax(ys) - SetMin(ys)
          IN IF width < 1 \/ height < 1 THEN NULL
             ELSE [boundingBox |-> [minX |-> SetMin(xs), maxX |-> SetMax(xs),
                                    minY |-> SetMin(ys), maxY |-> SetMax(ys),
                                    width |-> width, height |-> height],
                   npoints |-> Len(allPoints)]

\* convertShapeToGeoJSON: null below 3 points, else a LineString
ConvertShapeToGeoJSON(d) ==
  IF Len(Flat(d)) < 3 THEN NULL ELSE [type |-> "LineString"]

\* the drawings a search is run on
Drawings ==
  { <<>>,                                              \* nothing drawn
    << <<Pt(0, 0), Pt(4, 4)>> >>,                      \* two points
    << <<Pt(0, 0), Pt(2, 0), Pt(4, 0)>> >>,            \* flat: height 0
    << <<Pt(0, 0), Pt(4, 0)>>, <<Pt(4, 4), Pt(0, 4), Pt(0, 1)>> >> }  \* square

\* --------------------------------------------- performAdvancedMatching
\* A way as the Overpass response carries it: npts points of geometry (0: the
\* element has no geometry), far: its first point lies more than 10 km from
\* the search centre, metrics: what the four Turf/DTW helpers
\* (geometric, dtw, feature, spatial) return for this geometry against the
\* drawing, or <<>> when the scoring of this path throws, highway: its
\* highway tag, and km: the length of its simplified path in thousandths of
\* a kilometre.
TaggedWay(n, f, m, h, d) ==
  [npts |-> n, far |-> f, metrics |-> m, highway |-> h, km |-> d]

Way(n, f, m) == TaggedWay(n, f, m, "residential", 1000)

WayKinds ==
  { Way(0, FALSE, <<>>),                    \* no geometry
    Way(4, FALSE, <<100, 100, 500, 500>>),     \* every helper at its default
    Way(4, FALSE, <<1000, 1000, 400, 200>>),   \* metrics disagree
    Way(4, FALSE, <<700, 700, 700, 700>>) }    \* metrics agree

\* (the creative profile's spatial weight raised without lowering another)
getWeightsForCreativity_unnormalized(c) ==
  CASE c = "strict"   -> [geometric |-> 400, dtw |-> 300, feature |-> 200, spatial |-> 100]
    [] c = "balanced" -> [geometric |-> 300, dtw |-> 250, feature |-> 250, spatial |-> 200]
    [] c = "creative" -> [geometric |-> 200, dtw |-> 200, feature |-> 300, spatial |-> 400]

getWeightsForCreativity(c) ==
  CASE c = "strict"   -> [geometric |-> 400, dtw |-> 300, feature |-> 200, spatial |-> 100]
    [] c = "balanced" -> [geometric |-> 300, dtw |-> 250, feature |-> 250, spatial |-> 200]
    [] c = "creative" -> [geometric |-> 200, dtw |-> 200, feature |-> 300, spatial |-> 300]

\* mean * (1 - standardDeviation) over the metric values
calculateConfidence(sims) ==
  LET n == Len(sims)
      mean == SumSeq(sims) \div n
      variance == SumSeq([i \in 1..n |-> (sims[i] - mean) * (sims[i] - mean)]) \div n
      standardDeviation == ISqrt(variance)
  IN (mean * (1000 - standardDeviation)) \div 1000

Clamp01(x) == Max2(0, Min2(1000, x))

Modes == {"walking", "cycling", "driving"}

getTransportModeFromWay(way) ==
  CASE way.highway \in {"footway", "path", "pedestrian", "steps"} -> "walking"
    [] way.highway \in {"cycleway"} -> "cycling"
    [] way.highway \in {"primary", "secondary", "trunk", "motorway"} -> "driving"
    [] OTHER -> "walking"

\* (distance / speeds[mode]) * 60, in thousandths of a minute
estimateDuration(distance, mode) ==
  LET speeds == [walking |-> 5, cycling |-> 15, driving |-> 40]
  IN (distance * 60) \div speeds[mode]

\* preprocessRouteCandidates: a way becomes a candidate unless its path has
\* fewer than 2 points or starts more than 10 km from the centre; the
\* candidate keeps the position of its way in the response as id
preprocessRouteCandidates(ws) ==
  SelectSeq([i \in 1..Len(ws) |->
               [id |-> i, way |-> ws[i], similarity |-> 0,
                distance |-> ws[i].km,
                duration |-> estimateDuration(ws[i].km, getTransportModeFromWay(ws[i])),
                confidence |-> 500]],
            LAMBDA c : c.way.npts >= 2 /\ ~c.way.far)

\* (a candidate whose scoring throws is left out of the result)
performAdvancedMatching_dropFailed(cs, shapeGeoJSON, c) ==
  LET kept == IF shapeGeoJSON = NULL THEN cs
              ELSE SelectSeq(cs, LAMBDA a : a.way.metrics # <<>>)
  IN [i \in 1..Len(kept) |->
        IF shapeGeoJSON = NULL
        THEN [kept[i] EXCEPT !.similarity = 100, !.confidence = 100]
        ELSE LET m == kept[i].way.metrics
                 w == getWeightsForCreativity(c)
                 finalSimilarity == (m[1] * w.geometric + m[2] * w.dtw
                                     + m[3] * w.feature + m[4] * w.spatial) \div 1000
             IN [kept[i] EXCEPT !.similarity = Clamp01(finalSimilarity),
                                !.confidence = Clamp01(calculateConfidence(m))]]

\* performAdvancedMatching: one scored entry per candidate, in order; the
\* floor 0.1 / 0.1 when there is no shape GeoJSON or the candidate throws
performAdvancedMatching(cs, shapeGeoJSON, c) ==
  [i \in 1..Len(cs) |->
     IF shapeGeoJSON = NULL \/ cs[i].way.metrics = <<>>
     THEN [cs[i] EXCEPT !.similarity = 100, !.confidence = 100]
     ELSE LET m == cs[i].way.metrics
              w == getWeightsForCreativity(c)
              finalSimilarity == (m[1] * w.geometric + m[2] * w.dtw
                                  + m[3] * w.feature + m[4] * w.spatial) \div 1000
          IN [cs[i] EXCEPT !.similarity = Clamp01(finalSimilarity),
                           !.confidence = Clamp01(calculateConfidence(m))]]

\* ------------------------------------------------- smartFilterAndRank
MAX_ROUTES == 5
MIN_CONFIDENCE == 300

minSimilarity(c) ==
  CASE c = "strict" -> 600 [] c = "balanced" -> 400 [] c = "creative" -> 250

\* the ranking score a.similarity * 0.7 + a.confidence * 0.3, times 10
rankScore(a) == a.similarity * 7 + a.confidence * 3

\* (a comparator on similarity alone, as filterAndRankRoutes has it)
compareRank_bySimilarity(a, b) == b.similarity - a.similarity

\* the sort comparator: negative when a is to come before b
compareRank(a, b) == rankScore(b) - rankScore(a)

RECURSIVE InsertRanked(_, _)
\* x goes behind every element it does not strictly precede
InsertRanked(sorted, x) ==
  IF sorted = <<>> THEN <<x>>
  ELSE IF compareRank(x, Head(sorted)) < 0 THEN <<x>> \o sorted
  ELSE <<Head(sorted)>> \o InsertRanked(Tail(sorted), x)

RECURSIVE SortRanked(_, _)
\* Array.prototype.sort with compareRank: stable
SortRanked(done, rest) ==
  IF rest = <<>> THEN done
  ELSE SortRanked(InsertRanked(done, Head(rest)), Tail(rest))

\* (a filter on similarity alone, as filterAndRankRoutes has it)
qualifies_noConfidence(a, c) == a.similarity >= minSimilarity(c)

\* the .filter(...) of smartFilterAndRank
qualifies(a, c) == a.similarity >= minSimilarity(c) /\ a.confidence >= MIN_CONFIDENCE

\* a Route of the primary stage, built from candidate a
PrimaryRoute(a) ==
  [src |-> "primary", cand |-> a.id, similarityScore |-> Round2(a.similarity),
   npts |-> a.way.npts]

\* (the cap applied before the sort)
smartFilterAndRank_sliceFirst(cs, c) ==
  LET filtered == SortRanked(<<>>, Slice0(SelectSeq(cs, LAMBDA a : qualifies(a, c)),
                                          MAX_ROUTES))
  IN [i \in 1..Len(filtered) |-> PrimaryRoute(filtered[i])]

smartFilterAndRank(cs, c) ==
  LET filtered == Slice0(SortRanked(<<>>, SelectSeq(cs, LAMBDA a : qualifies(a, c))),
                         MAX_ROUTES)
  IN [i \in 1..Len(filtered) |-> PrimaryRoute(filtered[i])]

\* ------------------------------------------------ FallbackRouteService
\* values Math.random() is taken to return: both ends of [0, 1)
RandomDraws == {0, 999}

\* what a fetch of Nominatim can come back with; only "match" gives
\* coordinates (response.ok is not looked at, a rejected fetch or a body that
\* does not parse is caught, a body without matches is skipped)
GeoOutcomes == {"match", "nomatch", "unreachable", "httpError", "malformed"}
\* the ways an Overpass fetch can fail
FetchFailures == {"unreachable", "httpError", "malformed"}

\* A repeated call is answered by the collaborators as the first call was:
\* entry is the response received now
Answers(entry) ==
  /\ runNo > 1 => (Len(obs) < Len(prevObs) /\ prevObs[Len(obs) + 1] = entry)
  /\ obs' = Append(obs, entry)

\* getSimpleRoutes, response ok: the first 3 ways, each with the random
\* score 0.3 + Math.random() * 0.3
getSimpleRoutesOk(fbWays, draws) ==
  LET first3 == Slice0(fbWays, 3)
  IN [i \in 1..Len(first3) |->
        [src |-> "degraded", cand |-> i,
         similarityScore |-> 300 + (draws[i] * 300) \div 1000,
         npts |-> first3[i]]]

\* generateDummyRoutes: two placeholder routes; draws = <<score 1, points 1,
\* score 2, points 2>>
generateDummyRoutes(draws) ==
  << [src |-> "synthetic", cand |-> 1,
      similarityScore |-> 200 + (draws[1] * 200) \div 1000,
      npts |-> 5 + (draws[2] * 10) \div 1000],
     [src |-> "synthetic", cand |-> 2,
      similarityScore |-> 150 + (draws[3] * 250) \div 1000,
      npts |-> 5 + (draws[4] * 10) \div 1000] >>

\* The synchronous head of findBasicRoutes(drawing, location, mode), entered
\* with the event ev of the primary stage that led to it: placeholder routes
\* at once when the shape cannot be analysed, else the Nominatim fetch of
\* getSimpleBbox is issued.  The primary stage's locals are gone.
findBasicRoutes(ev) ==
  /\ ways' = <<>>
  /\ cands' = <<>>
  /\ IF AnalyzeShape(drawing) = NULL
     THEN \E draws \in [1..4 -> RandomDraws] :
            /\ routes' = generateDummyRoutes(draws)
            /\ outcome' = "resolved"
            /\ pc' = "done"
            /\ log' = log \o <<ev, "fallback", "dummy">>
     ELSE /\ pc' = "fb_geocode"
          /\ log' = log \o <<ev, "fallback", "fb_nominatim">>
          /\ UNCHANGED <<routes, outcome>>

\* (a catch block that rethrows, as OfflineRouteService.findMatchingRoutes has it)
catchPrimary_rethrow ==
  /\ ways' = <<>>
  /\ cands' = <<>>
  /\ routes' = <<>>
  /\ outcome' = "rejected"
  /\ pc' = "done"
  /\ log' = Append(log, "primary_error")

\* The catch block of findMatchingRoutes: the fallback is tried with the
\* same arguments
catchPrimary == findBasicRoutes("primary_error")

\* ----------------------- ImprovedOfflineRouteService.findMatchingRoutes
\* call: analyzeShape; throws into the catch block when there are no shape
\* features, else getLocationData issues its Nominatim fetch
Call ==
  /\ pc = "start"
  /\ IF AnalyzeShape(drawing) = NULL
     THEN /\ catchPrimary
          /\ UNCHANGED obs
     ELSE /\ pc' = "geocode"
          /\ log' = Append(log, "nominatim")
          /\ UNCHANGED <<ways, cands, routes, outcome, obs>>
  /\ UNCHANGED <<drawing, creativity>>
  /\ UNCHANGED <<rerunVars, hookVars>>

\* getLocationData resumes: a match gives the centre, anything else the
\* known-city default; getEnhancedOSMData then issues the Overpass fetch
GeocodeReply ==
  /\ pc = "geocode"
  /\ \E g \in GeoOutcomes : Answers(<<"nominatim", g, <<>> >>)
  /\ pc' = "overpass"
  /\ log' = Append(log, "overpass")
  /\ UNCHANGED <<drawing, creativity, ways, cands, routes, outcome>>
  /\ UNCHANGED <<rerunVars, hookVars>>

\* getEnhancedOSMData throws: fetch rejected, !response.ok, or a body that
\* is not JSON with an elements array
OverpassFail ==
  /\ pc = "overpass"
  /\ \E f \in FetchFailures : Answers(<<"overpass", f, <<>> >>)
  /\ catchPrimary
  /\ UNCHANGED <<drawing, creativity>>
  /\ UNCHANGED <<rerunVars, hookVars>>

\* getEnhancedOSMData returned ws: preprocess, score, filter and rank; the
\* ranked routes are returned unless there are none
primaryReturn(ws) ==
  LET scored == performAdvancedMatching(preprocessRouteCandidates(ws),
                                        ConvertShapeToGeoJSON(drawing), creativity)
      finalRoutes == smartFilterAndRank(scored, creativity)
  IN /\ Answers(<<"overpass", "ok", ws>>)
     /\ IF Len(finalRoutes) = 0
        THEN findBasicRoutes("primary_empty")
        ELSE /\ ways' = ws
             /\ cands' = scored
             /\ routes' = finalRoutes
             /\ outcome' = "resolved"
             /\ pc' = "done"
             /\ log' = Append(log, "primary_ok")

\* getEnhancedOSMData returns up to maxWays ways
OverpassOk(maxWays) ==
  /\ pc = "overpass"
  /\ \E ws \in SeqsUpTo(WayKinds, maxWays) : primaryReturn(ws)
  /\ UNCHANGED <<drawing, creativity>>
  /\ UNCHANGED <<rerunVars, hookVars>>

\* getSimpleBbox resumes: never throws (match or the default box);
\* getSimpleRoutes then issues its Overpass fetch
FbGeocodeReply ==
  /\ pc = "fb_geocode"
  /\ \E g \in GeoOutcomes : Answers(<<"fb_nominatim", g, <<>> >>)
  /\ pc' = "fb_overpass"
  /\ log' = Append(log, "fb_overpass")
  /\ UNCHANGED <<drawing, creativity, ways, cands, routes, outcome>>
  /\ UNCHANGED <<rerunVars, hookVars>>

\* getSimpleRoutes catches its own failure and returns []; findBasicRoutes
\* returns that list as it is
FbOverpassFail ==
  /\ pc = "fb_overpass"
  /\ \E f \in FetchFailures : Answers(<<"fb_overpass", f, <<>> >>)
  /\ routes' = <<>>
  /\ outcome' = "resolved"
  /\ pc' = "done"
  /\ log' = Append(log, "degraded_result")
  /\ UNCHANGED <<drawing, creativity, ways, cands>>
  /\ UNCHANGED <<rerunVars, hookVars>>

\* getSimpleRoutes maps the first 3 ways to routes; fbWays gives each way's
\* number of geometry points
FbOverpassOk ==
  /\ pc = "fb_overpass"
  /\ \E k \in 0..MaxFbWays : \E draws \in [1..Min2(k, 3) -> RandomDraws] :
       LET fbWays == [i \in 1..k |-> 3]
       IN /\ Answers(<<"fb_overpass", "ok", fbWays>>)
          /\ routes' = getSimpleRoutesOk(fbWays, draws)
  /\ outcome' = "resolved"
  /\ pc' = "done"
  /\ log' = Append(log, "degraded_result")
  /\ UNCHANGED <<drawing, creativity, ways, cands>>
  /\ UNCHANGED <<rerunVars, hookVars>>

\* the caller invokes findMatchingRoutes once more with the same arguments
Rerun ==
  /\ pc = "done"
  /\ runNo = 1
  /\ runNo' = runNo + 1
  /\ prevRoutes' = routes
  /\ prevObs' = obs
  /\ prevLog' = log
  /\ pc' = "start"
  /\ ways' = <<>>
  /\ cands' = <<>>
  /\ routes' = <<>>
  /\ outcome' = "pending"
  /\ log' = <<>>
  /\ obs' = <<>>
  /\ UNCHANGED <<drawing, creativity, hookVars>>

\* ------------------------------------------------------ specifications
HookIdle ==
  /\ hook = [routes |-> <<>>, isLoading |-> FALSE, error |-> NULL,
             mapZoom |-> 13, mapCenter |-> "default", activeRouteIndex |-> NULL]
  /\ reqs = <<>>

NoRerun ==
  /\ runNo = 1
  /\ prevRoutes = <<>>
  /\ prevObs = <<>>
  /\ prevLog = <<>>

Init ==
  /\ drawing \in Drawings
  /\ creativity \in Creativities
  /\ pc = "start"
  /\ ways = <<>>
  /\ cands = <<>>
  /\ routes = <<>>
  /\ outcome = "pending"
  /\ log = <<>>
  /\ obs = <<>>
  /\ NoRerun
  /\ HookIdle

\* one call of findMatchingRoutes
Next ==
  \/ Call
  \/ GeocodeReply
  \/ OverpassFail
  \/ OverpassOk(MaxWays)
  \/ FbGeocodeReply
  \/ FbOverpassFail
  \/ FbOverpassOk

Spec == Init /\ [][Next]_vars

\* ------------------------------------------- properties of the pipeline
Done == pc = "done"
Logged(e) == \E i \in 1..Len(log) : log[i] = e
\* event a is logged, and before event b
LoggedBefore(a, b) == \E i, j \in 1..Len(log) : i < j /\ log[i] = a /\ log[j] = b
NetworkCalls == {"nominatim", "overpass", "fb_nominatim", "fb_overpass"}
Observed(call, results) ==
  \E i \in 1..Len(obs) : obs[i][1] = call /\ obs[i][2] \in results
\* a collaborator was unreachable, answered with an HTTP error or sent
\* malformed data
DataUnavailable ==
  \E i \in 1..Len(obs) : obs[i][2] \in {"unreachable", "httpError", "malformed"}

\* the scored candidate a primary route was built from
CandOf(r) == CHOOSE a \in {cands[i] : i \in 1..Len(cands)} : a.id = r.cand
Qualifying == {i \in 1..Len(cands) : qualifies(cands[i], creativity)}
Returned == {i \in 1..Len(cands) : \E k \in 1..Len(routes) : routes[k].cand = cands[i].id}
PrimaryResult == Done /\ Logged("primary_ok")

\* C1: every call resolves with a list of at least one Route, also when the
\* data provider has no ways or is unreachable in both stages.
C1_AtLeastOneRoute == Done => (outcome = "resolved" /\ Len(routes) >= 1)

\* C2: when the geocoder or the street-network provider was unreachable,
\* answered with an HTTP error or sent malformed data at any stage, the call
\* is never rejected, and once finished it has resolved with a Route list.
C2_UnavailabilityAbsorbed ==
  DataUnavailable =>
    /\ outcome # "rejected"
    /\ Done => (outcome = "resolved" /\ routes \in Seq([src : STRING, cand : Nat,
                                                       similarityScore : Nat, npts : Nat]))

C2_Witness ==
  /\ Done
  /\ Observed("overpass", FetchFailures)
  /\ Observed("fb_overpass", FetchFailures)
  /\ Observed("nominatim", {"unreachable"})
  /\ outcome = "resolved"

\* C3: a drawing without shape features is rejected as a hard failure before
\* any network fetch: the call fails and returns no Route list.
C3_InsufficientDataRejected ==
  (Done /\ AnalyzeShape(drawing) = NULL) =>
    (outcome = "rejected" /\ routes = <<>> /\ \A e \in NetworkCalls : ~Logged(e))

\* C4: the stages run in the order Primary, Degraded, Synthetic: a non-empty
\* primary result is returned without any fallback, the degraded stage is
\* entered only after the primary stage yielded nothing, and placeholder
\* routes are produced only after the degraded stage has attempted its
\* candidate fetch.
C4_StageOrder ==
  /\ Logged("primary_ok") => ~Logged("fallback")
  /\ Logged("fallback") => (LoggedBefore("primary_empty", "fallback")
                            \/ LoggedBefore("primary_error", "fallback"))
  /\ Logged("dummy") => LoggedBefore("fb_overpass", "dummy")

\* C6: the routes of smartFilterAndRank are in non-increasing order of the
\* ranking score 0.7 * similarity + 0.3 * confidence, and candidates of equal
\* ranking score keep their input order.
C6_RankedStable ==
  PrimaryResult =>
    \A i, j \in 1..Len(routes) :
      i < j => \/ rankScore(CandOf(routes[i])) > rankScore(CandOf(routes[j]))
               \/ /\ rankScore(CandOf(routes[i])) = rankScore(CandOf(routes[j]))
                  /\ routes[i].cand < routes[j].cand

C6_Witness ==
  /\ PrimaryResult
  /\ \E i, j \in 1..Len(routes) :
       /\ i < j
       /\ rankScore(CandOf(routes[i])) = rankScore(CandOf(routes[j]))
  /\ \E i, j \in 1..Len(routes) :
       /\ rankScore(CandOf(routes[i])) > rankScore(CandOf(routes[j]))
       /\ routes[i].cand > routes[j].cand
       /\ CandOf(routes[i]).similarity < CandOf(routes[j]).similarity

\* C7: every route of smartFilterAndRank comes from a candidate whose
\* similarity is at least the profile's minimum (strict 0.6, balanced 0.4,
\* creative 0.25) and whose confidence is at least 0.3; no candidate below
\* either bound is returned.
C7_AboveThresholds ==
  PrimaryResult =>
    /\ \A k \in 1..Len(routes) :
         /\ \E i \in 1..Len(cands) : cands[i].id = routes[k].cand
         /\ CandOf(routes[k]).similarity >=
              (CASE creativity = "strict" -> 600 [] creativity = "balanced" -> 400
                 [] creativity = "creative" -> 250)
         /\ CandOf(routes[k]).confidence >= 300
    /\ \A i \in 1..Len(cands) :
         (cands[i].similarity < minSimilarity(creativity) \/ cands[i].confidence < 300)
           => i \notin Returned

C7_Witness ==
  /\ PrimaryResult
  /\ \E i \in 1..Len(cands) :
       /\ cands[i].similarity >= minSimilarity(creativity)
       /\ cands[i].confidence < 300
       /\ i \notin Returned
  /\ Len(routes) >= 2

\* C8: no call returns more than 5 routes, and when more than 5 candidates
\* qualify the routes returned are the 5 of highest ranking score.
C8_Capped ==
  Done =>
    /\ Len(routes) <= 5
    /\ (PrimaryResult /\ Cardinality(Qualifying) > 5) =>
         /\ Len(routes) = 5
         /\ Cardinality(Returned) = 5
         /\ \A i \in Returned : \A j \in Qualifying \ Returned :
              rankScore(cands[i]) >= rankScore(cands[j])

C8_Witness ==
  /\ PrimaryResult
  /\ Cardinality(Qualifying) > 5
  /\ \E i \in Returned : \E j \in Qualifying \ Returned :
       j < i /\ rankScore(cands[i]) > rankScore(cands[j])

\* ------------------------------------------- the call made a second time
NextRerun ==
  \/ Call
  \/ GeocodeReply
  \/ OverpassFail
  \/ OverpassOk(MaxRerunWays)
  \/ FbGeocodeReply
  \/ FbOverpassFail
  \/ FbOverpassOk
  \/ Rerun

SpecRerun == Init /\ [][NextRerun]_vars

\* C9: two calls of findMatchingRoutes on the same drawing, profile and
\* collaborator responses return the same ordered Route list (same routes,
\* same order, same scores), whichever stage produces it.
C9_Deterministic ==
  (Done /\ runNo = 2 /\ obs = prevObs) => routes = prevRoutes

\* ----------------------------------------------------- useRouteSearch
\* a location is the string typed, as a sequence of characters
Locations == { <<" ">>, <<"S", "F">>, <<"P", "a", "r", "i", "s">> }

RECURSIVE TrimStart(_)
TrimStart(t) == IF t # <<>> /\ Head(t) = " " THEN TrimStart(Tail(t)) ELSE t
RECURSIVE TrimEnd(_)
TrimEnd(t) ==
  IF t # <<>> /\ t[Len(t)] = " " THEN TrimEnd(SubSeq(t, 1, Len(t) - 1)) ELSE t
\* String.prototype.trim
Trim(t) == TrimEnd(TrimStart(t))

\* validateDrawing: the message of the ValidationError thrown, or NULL
validateDrawing(d) ==
  IF Len(d) = 0 THEN [msg |-> "Please draw a shape first."]
  ELSE IF SumSeq([i \in 1..Len(d) |-> Len(d[i])]) < 5
       THEN [msg |-> "Drawing is too simple. Please draw a more detailed shape."]
       ELSE NULL

\* validateLocation: the message of the ValidationError thrown, or NULL
validateLocation(loc) ==
  IF Len(Trim(loc)) = 0 THEN [msg |-> "Please enter a location."]
  ELSE IF Len(Trim(loc)) < 3 THEN [msg |-> "Location name is too short."]
       ELSE NULL

\* retryWithBackoff defaults
maxRetries == 3
delay == 1000

RECURSIVE Pow2(_)
Pow2(i) == IF i = 0 THEN 1 ELSE 2 * Pow2(i - 1)

AllDone == \A r \in 1..Len(reqs) : reqs[r].pc = "done"

\* catch (err) { setError(formatErrorMessage(err)) } finally { setIsLoading(false) }
\* of call r, which is then over
Fails(r, m) ==
  /\ hook' = [hook EXCEPT !.error = [req |-> r, msg |-> m], !.isLoading = FALSE]
  /\ reqs' = [reqs EXCEPT ![r].pc = "done", ![r].error = [req |-> r, msg |-> m]]

\* searchRoutes(d, loc, mode) up to its first await: validation, then the
\* state is reset and the geocoding fetch is issued
SearchCall ==
  /\ Len(reqs) < MaxReq
  /\ \E d \in Drawings, loc \in Locations :
       LET r == Len(reqs) + 1
           invalid == IF validateDrawing(d) # NULL THEN validateDrawing(d)
                      ELSE validateLocation(loc)
           req == [pc |-> "geocoding", drawing |-> d, location |-> loc,
                   attempt |-> 0, waits |-> <<>>, overlapped |-> ~AllDone,
                   validated |-> invalid = NULL, found |-> <<>>, error |-> NULL]
       IN IF invalid # NULL
          THEN /\ hook' = [hook EXCEPT !.error = [req |-> r, msg |-> invalid.msg],
                                       !.isLoading = FALSE]
               /\ reqs' = Append(reqs, [req EXCEPT !.pc = "done",
                                          !.error = [req |-> r, msg |-> invalid.msg]])
          ELSE /\ hook' = [hook EXCEPT !.isLoading = TRUE, !.error = NULL,
                                       !.routes = <<>>, !.activeRouteIndex = NULL]
               /\ reqs' = Append(reqs, req)
  /\ UNCHANGED <<pipeVars, rerunVars>>

\* one attempt of the geocoding fetch fails (rejected, or !geoResponse.ok):
\* retryWithBackoff waits delay * 2^i and tries again, or rethrows after the
\* last attempt
GeocodeAttemptFails ==
  /\ \E r \in 1..Len(reqs) :
       /\ reqs[r].pc = "geocoding"
       /\ IF reqs[r].attempt = maxRetries - 1
          THEN Fails(r, "An error occurred: Geocoding failed")
          ELSE /\ reqs' = [reqs EXCEPT ![r].attempt = @ + 1,
                                       ![r].waits = Append(@, delay * Pow2(reqs[r].attempt))]
               /\ UNCHANGED hook
  /\ UNCHANGED <<pipeVars, rerunVars>>

\* the geocoding fetch succeeds: handleGeocodeError throws on no match, else
\* the map is centred and findMatchingRoutes is called
GeocodeAttemptOk ==
  /\ \E r \in 1..Len(reqs) : \E matches \in {0, 1} :
       /\ reqs[r].pc = "geocoding"
       /\ IF matches = 0
          THEN Fails(r, "Location not found")
          ELSE /\ hook' = [hook EXCEPT !.mapCenter = reqs[r].location, !.mapZoom = 14]
               /\ reqs' = [reqs EXCEPT ![r].pc = "finding"]
  /\ UNCHANGED <<pipeVars, rerunVars>>

\* findMatchingRoutes of call r settles: routes, no routes, or an error
FindReply ==
  /\ \E r \in 1..Len(reqs) : \E res \in {"routes", "empty", "throws"} :
       /\ reqs[r].pc = "finding"
       /\ CASE res = "routes" ->
                 LET foundRoutes == <<[req |-> r, path |-> reqs[r].drawing]>>
                 IN /\ hook' = [hook EXCEPT !.routes = foundRoutes, !.isLoading = FALSE]
                    /\ reqs' = [reqs EXCEPT ![r].pc = "done", ![r].found = foundRoutes]
            [] res = "empty" ->
                 Fails(r, "No matching routes found. Try a different shape or location.")
            [] res = "throws" -> Fails(r, "API Error")
  /\ UNCHANGED <<pipeVars, rerunVars>>

InitSearch ==
  /\ drawing = <<>>
  /\ creativity = "balanced"
  /\ pc = "idle"
  /\ ways = <<>>
  /\ cands = <<>>
  /\ routes = <<>>
  /\ outcome = "pending"
  /\ log = <<>>
  /\ obs = <<>>
  /\ NoRerun
  /\ HookIdle

NextSearch ==
  \/ SearchCall
  \/ GeocodeAttemptFails
  \/ GeocodeAttemptOk
  \/ FindReply

SpecSearch == InitSearch /\ [][NextSearch]_vars

\* C5: when a search is started while an earlier one is in flight, then once
\* all have finished the hook holds the routes and the error of the later
\* search, whatever the order in which they completed.
C5_StaleDiscarded ==
  LET last == Len(reqs)
  IN (last >= 2 /\ AllDone /\ reqs[last].overlapped
      /\ \A r \in 1..last : reqs[r].validated)
     => (hook.routes = reqs[last].found /\ hook.error = reqs[last].error)

\* ------------------------------------------------- OfflineRouteService
\* Paths are sequences of pairs <<p[1], p[2]>> (the code's p[0], p[1]); a
\* normalized coordinate is in thousandths of the bounding-box side, as the
\* normalized path string carries it (toFixed(3)).

\* Infinity in the DTW matrix
Inf == 1000000
\* the earth radius of haversineDistance, km
R == 6371

\* the shape's points scaled per axis to the bounding box, stroke by stroke
normalizedDrawing(d) ==
  LET b == AnalyzeShape(d).boundingBox
  IN [s \in 1..Len(d) |->
        [i \in 1..Len(d[s]) |->
           [x |-> (2000 * (d[s][i].x - b.minX) + b.width) \div (2 * b.width),
            y |-> (2000 * (d[s][i].y - b.minY) + b.height) \div (2 * b.height)]]]

\* getDistance
getDistance(p1, p2) ==
  ISqrt((p2.x - p1.x) * (p2.x - p1.x) + (p2.y - p1.y) * (p2.y - p1.y))

\* the direction getAngle takes from p to q: atan2(0, 0) is 0, the direction
\* of the x axis
Direction(p, q) ==
  IF q.x = p.x /\ q.y = p.y THEN [x |-> 1, y |-> 0] ELSE [x |-> q.x - p.x, y |-> q.y - p.y]

\* getAngle(p0, p1, p2) < cornerAngleThreshold: the angle at p1 between the
\* directions to p0 and to p2 is below 135 degrees (its cosine above -0.707)
IsCorner(p0, p1, p2) ==
  LET a == Direction(p1, p0)
      b == Direction(p1, p2)
      dot == a.x * b.x + a.y * b.y
  IN dot * 1000 > (0 - 707) * ISqrt(a.x * a.x + a.y * a.y) * ISqrt(b.x * b.x + b.y * b.y)

\* getAngle(p0, p1, p2) < sharpTurnAngleThreshold: below 90 degrees
IsSharpTurn(p0, p1, p2) ==
  LET a == Direction(p1, p0)
      b == Direction(p1, p2)
  IN a.x * b.x + a.y * b.y > 0

\* aspectRatio = width / height
shapeAspectRatio(d) ==
  LET b == AnalyzeShape(d).boundingBox IN (b.width * 1000) \div b.height

\* totalLength: the segments of every stroke
shapeTotalLength(d) ==
  LET nd == normalizedDrawing(d)
  IN SumSeq([s \in 1..Len(nd) |->
               SumSeq([i \in 1..(Len(nd[s]) - 1) |-> getDistance(nd[s][i], nd[s][i + 1])])])

\* the inner points of a stroke that satisfy Turn, in order
TurnsOfStroke(stroke, Turn(_, _, _)) ==
  LET inner == [k \in 1..(Len(stroke) - 2) |-> k + 1]
      turns == SelectSeq(inner, LAMBDA i : Turn(stroke[i - 1], stroke[i], stroke[i + 1]))
  IN [k \in 1..Len(turns) |-> stroke[turns[k]]]

\* corners: for every stroke, its inner points with an angle below 135
shapeCornerPoints(d) ==
  LET nd == normalizedDrawing(d)
  IN Flat([s \in 1..Len(nd) |-> TurnsOfStroke(nd[s], IsCorner)])

\* sharpTurns: for every stroke, its inner points with an angle below 90
shapeSharpTurns(d) ==
  LET nd == normalizedDrawing(d)
  IN Len(Flat([s \in 1..Len(nd) |-> TurnsOfStroke(nd[s], IsSharpTurn)]))

\* corners.length
shapeCorners(d) == Len(shapeCornerPoints(d))

\* straightness = min(1, |end - start| / totalLength), 0 for no length
shapeStraightness(d) ==
  LET pts == Flat(normalizedDrawing(d))
      direct == getDistance(pts[1], pts[Len(pts)])
  IN IF shapeTotalLength(d) > 0
     THEN Min2(1000, (direct * 1000) \div shapeTotalLength(d))
     ELSE 0

\* complexity = max(0.1, min(1, (lengthFactor + cornerFactor) / 2))
shapeComplexity(d) ==
  LET lengthFactor == Min2(shapeTotalLength(d) \div 10, 1000)
      cornerFactor == Min2(shapeCorners(d) * 100, 1000)
  IN Max2(100, Min2(1000, (lengthFactor + cornerFactor) \div 2))

\* convertShapeToPath on the normalizedPath string: the coordinates of all
\* strokes, 3 decimals each, in one list
convertShapeToPath(d) ==
  LET pts == Flat(normalizedDrawing(d))
  IN [i \in 1..Len(pts) |-> <<pts[i].x, pts[i].y>>]

\* normalizePathCoordinates: each axis scaled to its own range (range 0: 1)
normalizePathCoordinates(path) ==
  IF Len(path) = 0 THEN <<>>
  ELSE LET lats == {path[i][1] : i \in 1..Len(path)}
           lons == {path[i][2] : i \in 1..Len(path)}
           minLat == SetMin(lats)
           minLon == SetMin(lons)
           latRange == IF SetMax(lats) - minLat = 0 THEN 1000 ELSE SetMax(lats) - minLat
           lonRange == IF SetMax(lons) - minLon = 0 THEN 1000 ELSE SetMax(lons) - minLon
       IN [i \in 1..Len(path) |->
             << (2000 * (path[i][1] - minLat) + latRange) \div (2 * latRange),
                (2000 * (path[i][2] - minLon) + lonRange) \div (2 * lonRange) >>]

euclideanDistance(p1, p2) ==
  ISqrt((p1[1] - p2[1]) * (p1[1] - p2[1]) + (p1[2] - p2[2]) * (p1[2] - p2[2]))

\* haversineDistance in metres for coordinates in thousandths of a degree
\* within one degree of the origin: R * pi / 180 per degree (cos(lat) is 1
\* to 4 digits there)
haversineDistance(p1, p2) ==
  (euclideanDistance(p1, p2) * ((R * 31416) \div 1800)) \div 1000

calculatePathDistance(path) ==
  SumSeq([i \in 1..(Len(path) - 1) |-> haversineDistance(path[i], path[i + 1])])

\* Math.exp(-x / 1000) in thousandths, x >= 0: e^-q from a table for the
\* integer part, the series 1 - r + r^2/2 - ... for the fraction
ExpNeg(x) ==
  LET q == x \div 1000
      r == x % 1000
      t2 == (r * r) \div 2000
      t3 == (t2 * r) \div 3000
      t4 == (t3 * r) \div 4000
      t5 == (t4 * r) \div 5000
      t6 == (t5 * r) \div 6000
      frac == 1000 - r + t2 - t3 + t4 - t5 + t6
      whole == <<1000, 368, 135, 50, 18, 7, 2, 1>>
  IN IF q >= 8 THEN 0 ELSE (whole[q + 1] * frac) \div 1000

RECURSIVE dtwRow(_, _, _, _)
\* One row dtw[i][0..m] of the DTW matrix, filled left to right from the row
\* above (prev); row holds dtw[i][0..j-1] and is indexed from 1
dtwRow(p, route, prev, row) ==
  LET j == Len(row)
  IN IF j > Len(route) THEN row
     ELSE dtwRow(p, route, prev,
                 Append(row, Min2(Inf, euclideanDistance(p, route[j])
                                       + Min2(prev[j + 1], Min2(row[j], prev[j])))))

RECURSIVE dtwRows(_, _, _, _)
\* rows i..n of the matrix; the result is row n
dtwRows(shape, route, i, prev) ==
  IF i > Len(shape) THEN prev
  ELSE dtwRows(shape, route, i + 1, dtwRow(shape[i], route, prev, <<Inf>>))

\* (the result read from dtw[n][m - 1])
calculateDTWSimilarity_offByOne(shape, route) ==
  LET n == Len(shape)
      m == Len(route)
      last == dtwRows(shape, route, 1, [j \in 1..(m + 1) |-> IF j = 1 THEN 0 ELSE Inf])
  IN ExpNeg(last[m] \div Max2(n, m))

\* Dynamic time warping: the (n+1) x (m+1) matrix with dtw[0][0] = 0 and
\* Infinity elsewhere in row 0 and column 0, then exp(-dtw[n][m] / max(n, m))
calculateDTWSimilarity(shape, route) ==
  LET n == Len(shape)
      m == Len(route)
      last == dtwRows(shape, route, 1, [j \in 1..(m + 1) |-> IF j = 1 THEN 0 ELSE Inf])
  IN ExpNeg(last[m + 1] \div Max2(n, m))

directedHausdorffDistance(setA, setB) ==
  SetMax({0} \cup {SetMin({Inf} \cup {euclideanDistance(setA[a], setB[b]) : b \in 1..Len(setB)})
                     : a \in 1..Len(setA)})

\* exp(-10 * max(h1, h2))
calculateHausdorffSimilarity(shape, route) ==
  ExpNeg(10 * Max2(directedHausdorffDistance(shape, route),
                   directedHausdorffDistance(route, shape)))

\* cos and sin of 2 * pi * t / n, in thousandths, for paths of up to 6 points
UnitCircle ==
  << << <<1000, 0>> >>,
     << <<1000, 0>>, <<-1000, 0>> >>,
     << <<1000, 0>>, <<-500, 866>>, <<-500, -866>> >>,
     << <<1000, 0>>, <<0, 1000>>, <<-1000, 0>>, <<0, -1000>> >>,
     << <<1000, 0>>, <<309, 951>>, <<-809, 588>>, <<-809, -588>>, <<309, -951>> >>,
     << <<1000, 0>>, <<500, 866>>, <<-500, 866>>, <<-1000, 0>>, <<-500, -866>>,
        <<500, -866>> >> >>

\* the magnitudes of the first min(8, n) harmonics; angle = -2 pi k i / n
computeFourierDescriptors(path) ==
  LET n == Len(path)
      cos(k, i) == UnitCircle[n][((k * i) % n) + 1][1]
      sin(k, i) == 0 - UnitCircle[n][((k * i) % n) + 1][2]
  IN [h \in 1..Min2(8, n) |->
        LET k == h - 1
            real == SumSeq([j \in 1..n |->
                      (path[j][1] * cos(k, j - 1) - path[j][2] * sin(k, j - 1)) \div 1000])
            imag == SumSeq([j \in 1..n |->
                      (path[j][1] * sin(k, j - 1) + path[j][2] * cos(k, j - 1)) \div 1000])
        IN ISqrt(real * real + imag * imag) \div n]

\* the mean of exp(-|difference|) over the descriptors both paths have
calculateFourierSimilarity(shape, route) ==
  LET shapeSignature == computeFourierDescriptors(shape)
      routeSignature == computeFourierDescriptors(route)
      minLength == Min2(Len(shapeSignature), Len(routeSignature))
  IN SumSeq([i \in 1..minLength |-> ExpNeg(Abs(shapeSignature[i] - routeSignature[i]))])
       \div minLength

\* Math.abs(Math.atan2(v2[2], v2[1]) - Math.atan2(v1[2], v1[1])) > Math.PI / 4,
\* decided exactly.  atan2 is in (-pi, pi], atan2(0, 0) = 0; the two angles
\* are subtracted as they are, not modulo a turn.  When both lie on the same
\* side of the first axis the difference is the angle between the vectors;
\* when they lie on opposite sides it is |angle1| + |angle2|.
DirectionChange(v1, v2) ==
  LET dir(v) == IF v = <<0, 0>> THEN <<1, 0>> ELSE v
      a == dir(v1)
      b == dir(v2)
      dot == a[1] * b[1] + a[2] * b[2]
      cross == a[1] * b[2] - a[2] * b[1]
      between == ~(dot > 0 /\ Abs(cross) <= dot)   \* angle between a and b > pi/4
      steep(v) == ~(v[1] > 0 /\ Abs(v[2]) <= v[1])  \* |atan2| > pi/4
  IN IF (a[2] >= 0) = (b[2] >= 0) THEN between
     ELSE steep(a) \/ steep(b) \/ between

\* extractRouteFeatures of a normalized route
extractRouteFeatures(route) ==
  IF Len(route) < 3 THEN [aspectRatio |-> 1000, complexity |-> 0, straightness |-> 1000]
  ELSE LET lats == {route[i][1] : i \in 1..Len(route)}
           lons == {route[i][2] : i \in 1..Len(route)}
           width == SetMax(lons) - SetMin(lons)
           height == SetMax(lats) - SetMin(lats)
           seg(i) == <<route[i + 1][1] - route[i][1], route[i + 1][2] - route[i][2]>>
           directionChanges ==
             Cardinality({i \in 2..(Len(route) - 1) : DirectionChange(seg(i - 1), seg(i))})
           totalDistance == calculatePathDistance(route)
           directDistance == euclideanDistance(route[1], route[Len(route)])
       IN [aspectRatio |-> IF width > 0 THEN (height * 1000) \div width ELSE 1000,
           complexity |-> Min2(1000, (directionChanges * 10000) \div (Len(route) * 3)),
           straightness |-> IF totalDistance > 0
                            THEN (directDistance * 1000) \div totalDistance
                            ELSE 1000]

\* the mean of the three feature similarities, shape against route
calculateGeometricSimilarity(d, route) ==
  LET routeFeatures == extractRouteFeatures(route)
      aspectRatioSim ==
        1000 - (Abs(shapeAspectRatio(d) - routeFeatures.aspectRatio) * 1000)
                 \div Max2(shapeAspectRatio(d), routeFeatures.aspectRatio)
      complexitySim == 1000 - Abs(shapeComplexity(d) - routeFeatures.complexity)
      straightnessSim == 1000 - Abs(shapeStraightness(d) - routeFeatures.straightness)
  IN (aspectRatioSim + complexitySim + straightnessSim) \div 3

\* the weights of calculateAdvancedSimilarity's switch
offlineWeights(c) ==
  CASE c = "strict"   -> [dtw |-> 400, hausdorff |-> 300, fourier |-> 200, geometric |-> 100]
    [] c = "balanced" -> [dtw |-> 300, hausdorff |-> 250, fourier |-> 250, geometric |-> 200]
    [] c = "creative" -> [dtw |-> 200, hausdorff |-> 200, fourier |-> 300, geometric |-> 300]

\* generateRouteCandidates: a way of fewer than 2 points is skipped
generateRouteCandidates(ws) ==
  SelectSeq([i \in 1..Len(ws) |-> [id |-> i, path |-> ws[i], similarity |-> 0]],
            LAMBDA c : Len(c.path) >= 2)

\* calculateAdvancedSimilarity: the four metrics of each candidate against
\* the shape, weighted by profile and clamped
calculateAdvancedSimilarity(cs, d, c) ==
  [i \in 1..Len(cs) |->
     LET normalizedRoute == normalizePathCoordinates(cs[i].path)
         normalizedShape == convertShapeToPath(d)
         w == offlineWeights(c)
         finalSimilarity ==
           (calculateDTWSimilarity(normalizedShape, normalizedRoute) * w.dtw
            + calculateHausdorffSimilarity(normalizedShape, normalizedRoute) * w.hausdorff
            + calculateFourierSimilarity(normalizedShape, normalizedRoute) * w.fourier
            + calculateGeometricSimilarity(d, normalizedRoute) * w.geometric) \div 1000
     IN [cs[i] EXCEPT !.similarity = Clamp01(finalSimilarity)]]

offlineMinSimilarity(c) ==
  CASE c = "strict" -> 700 [] c = "balanced" -> 500 [] c = "creative" -> 300

RECURSIVE InsertBySimilarity(_, _)
InsertBySimilarity(sorted, x) ==
  IF sorted = <<>> THEN <<x>>
  ELSE IF Head(sorted).similarity - x.similarity < 0 THEN <<x>> \o sorted
  ELSE <<Head(sorted)>> \o InsertBySimilarity(Tail(sorted), x)

RECURSIVE SortBySimilarity(_, _)
\* Array.prototype.sort with (a, b) => b.similarity - a.similarity: stable
SortBySimilarity(done, rest) ==
  IF rest = <<>> THEN done
  ELSE SortBySimilarity(InsertBySimilarity(done, Head(rest)), Tail(rest))

\* (the score reported in percent)
filterAndRankRoutes_percent(cs, c) ==
  LET filteredCandidates ==
        Slice0(SortBySimilarity(<<>>, SelectSeq(cs, LAMBDA a :
                                  a.similarity >= offlineMinSimilarity(c))), 5)
  IN [i \in 1..Len(filteredCandidates) |->
        [src |-> "offline", cand |-> filteredCandidates[i].id,
         similarityScore |-> Round2(filteredCandidates[i].similarity) * 100,
         npts |-> Len(filteredCandidates[i].path)]]

\* filterAndRankRoutes: at least the profile's minimum, by similarity, 5 at most
filterAndRankRoutes(cs, c) ==
  LET filteredCandidates ==
        Slice0(SortBySimilarity(<<>>, SelectSeq(cs, LAMBDA a :
                                  a.similarity >= offlineMinSimilarity(c))), 5)
  IN [i \in 1..Len(filteredCandidates) |->
        [src |-> "offline", cand |-> filteredCandidates[i].id,
         similarityScore |-> Round2(filteredCandidates[i].similarity),
         npts |-> Len(filteredCandidates[i].path)]]

\* the drawings an offline search is run on
OfflineDrawings ==
  { <<>>,
    << <<Pt(0, 0), Pt(4, 4)>> >>,
    << <<Pt(0, 0), Pt(4, 0)>>, <<Pt(4, 4), Pt(0, 4)>> >>,
    << <<Pt(7, 10), Pt(6, 10), Pt(5, 9), Pt(3, 4)>> >> }

\* The geometries the ways of a response can have, for drawing d with
\* normalized path s: one node only; s itself on twice the scale; s with its
\* second point moved by 0.001; the straight line from the first to the last
\* point of s; s backwards.
OfflinePaths(d) ==
  LET s == convertShapeToPath(d)
      n == Len(s)
  IN { <<s[1]>>,
       [i \in 1..n |-> <<2 * s[i][1] + 100, 2 * s[i][2] + 300>>],
       [s EXCEPT ![2] = <<s[2][1], IF s[2][2] > 0 THEN s[2][2] - 1 ELSE s[2][2] + 1>>],
       <<s[1], s[n]>>,
       [i \in 1..n |-> s[n + 1 - i]] }

\* the catch block of OfflineRouteService.findMatchingRoutes: throw error
offlineRethrow ==
  /\ ways' = <<>>
  /\ cands' = <<>>
  /\ routes' = <<>>
  /\ outcome' = "rejected"
  /\ pc' = "done"
  /\ log' = Append(log, "offline_error")

\* call: analyzeShape; throws without shape features, else geocodeLocation
\* issues its Nominatim fetch
OfflineCall ==
  /\ pc = "start"
  /\ IF AnalyzeShape(drawing) = NULL
     THEN offlineRethrow
     ELSE /\ pc' = "geocode"
          /\ log' = Append(log, "nominatim")
          /\ UNCHANGED <<ways, cands, routes, outcome>>
  /\ UNCHANGED <<drawing, creativity, obs>>
  /\ UNCHANGED <<rerunVars, hookVars>>

\* geocodeLocation resumes: it throws unless there is a match (a rejected
\* fetch, a body that does not parse, no match); with the bounding box
\* getOSMData issues the Overpass fetch
OfflineGeocodeReply ==
  /\ pc = "geocode"
  /\ \E g \in GeoOutcomes :
       /\ Answers(<<"nominatim", g, <<>> >>)
       /\ IF g = "match"
          THEN /\ pc' = "overpass"
               /\ log' = Append(log, "overpass")
               /\ UNCHANGED <<ways, cands, routes, outcome>>
          ELSE offlineRethrow
  /\ UNCHANGED <<drawing, creativity>>
  /\ UNCHANGED <<rerunVars, hookVars>>

\* getOSMData throws: fetch rejected or a body without an elements array
OfflineOverpassFail ==
  /\ pc = "overpass"
  /\ \E f \in FetchFailures : Answers(<<"overpass", f, <<>> >>)
  /\ offlineRethrow
  /\ UNCHANGED <<drawing, creativity>>
  /\ UNCHANGED <<rerunVars, hookVars>>

\* getOSMData returned the ways ws: candidates are generated, scored, filtered
\* and ranked, and the routes are returned
offlineReturn(ws) ==
  LET scoredCandidates ==
        calculateAdvancedSimilarity(generateRouteCandidates(ws), drawing, creativity)
  IN /\ Answers(<<"overpass", "ok", ws>>)
     /\ ways' = ws
     /\ cands' = scoredCandidates
     /\ routes' = filterAndRankRoutes(scoredCandidates, creativity)
     /\ outcome' = "resolved"
     /\ pc' = "done"
     /\ log' = Append(log, "offline_ok")

\* getOSMData returns up to maxBatch ways
OfflineOverpassOk(maxBatch) ==
  /\ pc = "overpass"
  /\ \E ws \in SeqsUpTo(OfflinePaths(drawing), maxBatch) : offlineReturn(ws)
  /\ UNCHANGED <<drawing, creativity>>
  /\ UNCHANGED <<rerunVars, hookVars>>

InitOffline ==
  /\ drawing \in OfflineDrawings
  /\ creativity \in Creativities
  /\ pc = "start"
  /\ ways = <<>>
  /\ cands = <<>>
  /\ routes = <<>>
  /\ outcome = "pending"
  /\ log = <<>>
  /\ obs = <<>>
  /\ NoRerun
  /\ HookIdle

\* one call of OfflineRouteService.findMatchingRoutes
NextOffline ==
  \/ OfflineCall
  \/ OfflineGeocodeReply
  \/ OfflineOverpassFail
  \/ OfflineOverpassOk(MaxBatch)

SpecOffline == InitOffline /\ [][NextOffline]_vars

\* candidate path p normalizes to the shape's own normalized path
IsDuplicate(p) == normalizePathCoordinates(p) = convertShapeToPath(drawing)
\* the candidate route k was built from
OfflineCandOf(k) == CHOOSE a \in {cands[i] : i \in 1..Len(cands)} : a.id = routes[k].cand

\* C10: under every creativity profile a candidate that is an exact
\* normalized duplicate of the shape is returned, and no candidate that is
\* not such a duplicate is placed before it in the Route list.
C10_DuplicateRanksFirst ==
  (Done /\ Logged("offline_ok")) =>
    \A i \in 1..Len(cands) :
      IsDuplicate(cands[i].path) =>
        \E k \in 1..Len(routes) :
          /\ routes[k].cand = cands[i].id
          /\ \A h \in 1..(k - 1) : IsDuplicate(OfflineCandOf(h).path)

\* ------------------------------------- scores on degenerate geometry
\* Geometries without extent, for drawing d: no node at all; the same
\* location twice and three times (length 0); three nodes on one meridian
\* (no width)
DegeneratePaths(d) ==
  LET s == convertShapeToPath(d)
  IN { <<>>,
       <<s[1], s[1]>>,
       <<s[1], s[1], s[1]>>,
       << <<0, 0>>, <<0, 500>>, <<0, 1000>> >> }

\* getOSMData returns up to maxBatch ways, degenerate ones among them
OfflineOverpassAny(maxBatch) ==
  /\ pc = "overpass"
  /\ \E ws \in SeqsUpTo(OfflinePaths(drawing) \cup DegeneratePaths(drawing), maxBatch) :
       offlineReturn(ws)
  /\ UNCHANGED <<drawing, creativity>>
  /\ UNCHANGED <<rerunVars, hookVars>>

NextScores ==
  \/ OfflineCall
  \/ OfflineGeocodeReply
  \/ OfflineOverpassFail
  \/ OfflineOverpassAny(MaxScoreBatch)

SpecScores == InitOffline /\ [][NextScores]_vars

\* a score in [0, 1]
InUnitInterval(x) == x \in 0..1000

TaggedWays ==
  { TaggedWay(0, FALSE, <<>>, "residential", 0),
    TaggedWay(1, FALSE, <<>>, "footway", 0),
    TaggedWay(4, TRUE, <<700, 700, 700, 700>>, "primary", 2000),
    TaggedWay(4, FALSE, <<>>, "residential", 1000),
    TaggedWay(4, FALSE, <<700, 700, 700, 700>>, "footway", 2000),
    TaggedWay(4, FALSE, <<1000, 1000, 400, 200>>, "cycleway", 3000),
    TaggedWay(4, FALSE, <<900, 800, 700, 600>>, "primary", 2000) }

\* getEnhancedOSMData returns up to maxWays tagged ways
OverpassTagged(maxWays) ==
  /\ pc = "overpass"
  /\ \E ws \in SeqsUpTo(TaggedWays, maxWays) : primaryReturn(ws)
  /\ UNCHANGED <<drawing, creativity>>
  /\ UNCHANGED <<rerunVars, hookVars>>

NextTagged ==
  \/ Call
  \/ GeocodeReply
  \/ OverpassFail
  \/ OverpassTagged(MaxTagged)
  \/ FbGeocodeReply
  \/ FbOverpassFail
  \/ FbOverpassOk

SpecTagged == Init /\ [][NextTagged]_vars

\* the candidates whose scoring throws
Failing(cs) == {i \in 1..Len(cs) : cs[i].way.metrics = <<>>}
\* the sequence without its element at position f
Without(seq, f) == [i \in 1..(Len(seq) - 1) |-> IF i < f THEN seq[i] ELSE seq[i + 1]]
\* similarity and confidence of a scored candidate
Scores(a) == <<a.similarity, a.confidence>>

\* C12: when the primary stage has scored a batch for a valid shape, there is
\* one scored entry per preprocessed candidate, in the same order; each
\* candidate whose scoring throws has similarity 0.1 and confidence 0.1; and
\* every other candidate has the scores it gets when the failing candidate is
\* left out of the batch.
C12_FailureIsolated ==
  (PrimaryResult /\ ConvertShapeToGeoJSON(drawing) # NULL) =>
    LET pre == preprocessRouteCandidates(ways)
    IN /\ Len(cands) = Len(pre)
       /\ \A i \in 1..Len(pre) : cands[i].id = pre[i].id
       /\ \A f \in Failing(pre) :
            /\ Scores(cands[f]) = <<100, 100>>
            /\ LET rest == performAdvancedMatching(Without(pre, f),
                                                   ConvertShapeToGeoJSON(drawing), creativity)
               IN \A i \in 1..Len(rest) :
                    Scores(rest[i]) = Scores(cands[IF i < f THEN i ELSE i + 1])

C12_Witness ==
  /\ PrimaryResult
  /\ ConvertShapeToGeoJSON(drawing) # NULL
  /\ \E f \in Failing(cands) : \E i \in 1..Len(cands) :
       /\ i > f
       /\ cands[i].way.metrics # <<>>
       /\ Scores(cands[i]) # <<100, 100>>
       /\ Scores(cands[f]) = <<100, 100>>

\* ------------------------------------------- the analyzeShape variants
\* The repository has three analyzeShape functions. Each is modelled by the
\* features the properties below read: normalizedPath (coordinates in
\* thousandths) and isClosed; NULL when the function returns null or throws.
ShapeVariants ==
  {"services/shapeAnalysisService", "services/shapeAnalysis", "utils/shapeAnalysis"}

\* pixel coordinates as they stand, in thousandths
RawPath(points) ==
  [i \in 1..Len(points) |-> [x |-> 1000 * points[i].x, y |-> 1000 * points[i].y]]

\* squared distance of two points
Dist2(p, q) == (q.x - p.x) * (q.x - p.x) + (q.y - p.y) * (q.y - p.y)

\* services/shapeAnalysisService.ts: null below 3 points or below 1 pixel of
\* width or height; per-axis normalisation; closed when the start-end
\* distance is below 15% of the smaller dimension
\* (d < 0.15 m  <=>  400 d^2 < 9 m^2)
analyzeShape(d) ==
  IF AnalyzeShape(d) = NULL THEN NULL
  ELSE LET b == AnalyzeShape(d).boundingBox
           startPoint == d[1][1]
           lastStroke == d[Len(d)]
           endPoint == lastStroke[Len(lastStroke)]
           m == Min2(b.width, b.height)
       IN [normalizedPath |-> Flat(normalizedDrawing(d)),
           isClosed |-> 400 * Dist2(startPoint, endPoint) < 9 * m * m,
           corners |-> shapeCornerPoints(d),
           sharpTurns |-> shapeSharpTurns(d)]

\* normalizePath of the services/shapeAnalysis variant: the path as it is
\* when the bounding box has no width or no height
normalizePath(path) ==
  IF Len(path) = 0 THEN <<>>
  ELSE LET xs == {path[i].x : i \in 1..Len(path)}
           ys == {path[i].y : i \in 1..Len(path)}
           width == SetMax(xs) - SetMin(xs)
           height == SetMax(ys) - SetMin(ys)
       IN IF width = 0 \/ height = 0 THEN RawPath(path)
          ELSE [i \in 1..Len(path) |->
                  [x |-> (2000 * (path[i].x - SetMin(xs)) + width) \div (2 * width),
                   y |-> (2000 * (path[i].y - SetMin(ys)) + height) \div (2 * height)]]

\* isClosedPath(path, tolerance) with the tolerance's square
isClosedPathWithin(path, tolerance2) ==
  IF Len(path) < 3 THEN FALSE ELSE Dist2(path[1], path[Len(path)]) <= tolerance2

\* isClosedPath with its default tolerance of 10 pixels
isClosedPath(path) == isClosedPathWithin(path, 10 * 10)

\* angle(p1, p2, p3) < Math.PI - angleThreshold for the threshold pi / 4: the
\* angle at p2 is below 135 degrees (0 when a side has no length), i.e. its
\* cosine is above -sqrt(1/2): dot >= 0, or 2 dot^2 < |v1|^2 |v2|^2
isSharp(p1, p2, p3) ==
  LET dot == (p1.x - p2.x) * (p3.x - p2.x) + (p1.y - p2.y) * (p3.y - p2.y)
      mag1 == Dist2(p1, p2)
      mag2 == Dist2(p3, p2)
  IN \/ mag1 = 0
     \/ mag2 = 0
     \/ dot >= 0
     \/ 2 * dot * dot < mag1 * mag2

\* detectCorners: the interior points with an angle below 135 degrees
detectCorners(path) ==
  IF Len(path) < 3 THEN <<>>
  ELSE LET at == SelectSeq([i \in 1..(Len(path) - 2) |-> i + 1],
                           LAMBDA i : isSharp(path[i - 1], path[i], path[i + 1]))
       IN [k \in 1..Len(at) |-> path[at[k]]]

\* analyzeShape of the services/shapeAnalysis variant: throws below 2 points;
\* aspectRatio = (maxX - minX) / (maxY - minY) is kept as the pair
\* <<width, height>>
analyzeShapeServices(d) ==
  LET allPoints == Flat(d)
      xs == {allPoints[i].x : i \in 1..Len(allPoints)}
      ys == {allPoints[i].y : i \in 1..Len(allPoints)}
  IN IF Len(allPoints) < 2 THEN NULL
     ELSE [normalizedPath |-> normalizePath(allPoints),
           isClosed |-> isClosedPath(allPoints),
           corners |-> detectCorners(allPoints),
           aspectRatio |-> <<SetMax(xs) - SetMin(xs), SetMax(ys) - SetMin(ys)>>]

\* perpendicularDistance squared, as a fraction <<numerator, denominator>>
perpendicularDistance2(point, lineStart, lineEnd) ==
  LET dx == lineEnd.x - lineStart.x
      dy == lineEnd.y - lineStart.y
      cross == (point.x - lineStart.x) * dy - (point.y - lineStart.y) * dx
  IN IF dx = 0 /\ dy = 0 THEN <<Dist2(point, lineStart), 1>>
     ELSE <<cross * cross, dx * dx + dy * dy>>

RECURSIVE douglasPeucker(_, _, _, _)
\* the indices kept strictly between start and end
douglasPeucker(points, start, end, tolerance) ==
  IF end - start <= 1 THEN <<>>
  ELSE LET d2(i) == perpendicularDistance2(points[i], points[start], points[end])
           inner == (start + 1)..(end - 1)
           \* the first index of greatest distance
           maxIndex == CHOOSE i \in inner :
                         /\ \A j \in inner : d2(j)[1] <= d2(i)[1]
                         /\ \A j \in inner : j < i => d2(j)[1] < d2(i)[1]
       IN IF d2(maxIndex)[1] > tolerance * tolerance * d2(maxIndex)[2]
          THEN douglasPeucker(points, start, maxIndex, tolerance)
               \o <<maxIndex>> \o douglasPeucker(points, maxIndex, end, tolerance)
          ELSE <<>>

simplifyPath(points, tolerance) ==
  IF Len(points) <= 2 THEN points
  ELSE LET keepIndices == <<1>> \o douglasPeucker(points, 1, Len(points), tolerance)
                               \o <<Len(points)>>
       IN [k \in 1..Len(keepIndices) |-> points[keepIndices[k]]]

\* normalizePoints: both axes divided by the larger dimension (1 for none)
normalizePoints(points) ==
  IF Len(points) = 0 THEN <<>>
  ELSE LET xs == {points[i].x : i \in 1..Len(points)}
           ys == {points[i].y : i \in 1..Len(points)}
           w0 == SetMax(xs) - SetMin(xs)
           h0 == SetMax(ys) - SetMin(ys)
           width == IF w0 = 0 THEN 1 ELSE w0
           height == IF h0 = 0 THEN 1 ELSE h0
           scale == Max2(width, height)
       IN [i \in 1..Len(points) |->
             [x |-> (2000 * (points[i].x - SetMin(xs)) + scale) \div (2 * scale),
              y |-> (2000 * (points[i].y - SetMin(ys)) + scale) \div (2 * scale)]]

\* analyzeShape of utils/shapeAnalysis: below 3 points the features of "a
\* simple line" with the points as drawn; otherwise the simplified path
\* normalised, closed when the start-end distance is below 10% of the length
analyzeShapeUtils(d) ==
  LET allPoints == Flat(d)
  IN IF Len(allPoints) < 3
     THEN [normalizedPath |-> RawPath(allPoints), isClosed |-> FALSE]
     ELSE LET simplified == simplifyPath(allPoints, 10)
              startEndDistance == ISqrt(1000000 * Dist2(simplified[1], simplified[Len(simplified)]))
              totalLength == SumSeq([i \in 1..(Len(simplified) - 1) |->
                                       ISqrt(1000000 * Dist2(simplified[i], simplified[i + 1]))])
          IN [normalizedPath |-> normalizePoints(simplified),
              isClosed |-> 10 * startEndDistance < totalLength]

analyzeShapeOf(variant, d) ==
  CASE variant = "services/shapeAnalysisService" -> analyzeShape(d)
    [] variant = "services/shapeAnalysis" -> analyzeShapeServices(d)
    [] variant = "utils/shapeAnalysis" -> analyzeShapeUtils(d)

\* the drawings analysed: no stroke, and one stroke of up to MaxStroke points
ShapePoints == {Pt(0, 0), Pt(3, 0), Pt(20, 0), Pt(20, 20)}
ShapeDrawings == {<<>>} \cup {<<s>> : s \in SeqsUpTo(ShapePoints, MaxStroke)}

\* a caller analyses the drawing with one of the variants
Analyze ==
  /\ pc = "start"
  /\ \E variant \in ShapeVariants :
       LET features == analyzeShapeOf(variant, drawing)
       IN /\ obs' = Append(obs, <<"analyzeShape", variant, features>>)
          /\ outcome' = IF features = NULL THEN "rejected" ELSE "resolved"
  /\ pc' = "done"
  /\ log' = Append(log, "analyzeShape")
  /\ UNCHANGED <<drawing, creativity, ways, cands, routes>>
  /\ UNCHANGED <<rerunVars, hookVars>>

InitShape ==
  /\ drawing \in ShapeDrawings
  /\ creativity = "balanced"
  /\ pc = "start"
  /\ ways = <<>>
  /\ cands = <<>>
  /\ routes = <<>>
  /\ outcome = "pending"
  /\ log = <<>>
  /\ obs = <<>>
  /\ NoRerun
  /\ HookIdle

NextShape == Analyze

SpecShape == InitShape /\ [][NextShape]_vars

\* the analyses made: <<variant, features>>
Analysed == {<<obs[i][2], obs[i][3]>> : i \in {j \in 1..Len(obs) : obs[j][1] = "analyzeShape"}}
\* every coordinate of the path within [0, 1]
InUnitSquare(path) ==
  \A i \in 1..Len(path) : path[i].x \in 0..1000 /\ path[i].y \in 0..1000
\* at least 2 points, and a bounding box of at least 1 pixel in both dimensions
WellSeparated(d) ==
  LET allPoints == Flat(d)
      xs == {allPoints[i].x : i \in 1..Len(allPoints)}
      ys == {allPoints[i].y : i \in 1..Len(allPoints)}
  IN /\ Len(allPoints) >= 2
     /\ SetMax(xs) - SetMin(xs) >= 1
     /\ SetMax(ys) - SetMin(ys) >= 1

\* C13: for a drawing of at least 2 points that spans at least a pixel in
\* both dimensions, analyzeShape returns features, and every point of their
\* normalizedPath has both coordinates within [0, 1].
C13_NormalizedInUnitSquare ==
  \A a \in Analysed :
    WellSeparated(drawing) => (a[2] # NULL /\ InUnitSquare(a[2].normalizedPath))

\* fewer than 3 points, or a bounding box below 1 pixel of width or height
Insufficient(d) ==
  LET allPoints == Flat(d)
      xs == {allPoints[i].x : i \in 1..Len(allPoints)}
      ys == {allPoints[i].y : i \in 1..Len(allPoints)}
  IN \/ Len(allPoints) < 3
     \/ SetMax(xs) - SetMin(xs) < 1
     \/ SetMax(ys) - SetMin(ys) < 1

\* C14: analyzeShape produces no features exactly when the flattened drawing
\* has fewer than 3 points or its bounding box is below the minimum width or
\* height; every other drawing yields features.
C14_FailsExactlyWhenInsufficient ==
  \A a \in Analysed : (a[2] = NULL) <=> Insufficient(drawing)

\* C15: the isClosed that services/shapeAnalysisService.analyzeShape returns
\* is true exactly when the distance between the first and the last point is
\* at most 0.15 * min(width, height) of the bounding box, the distance equal
\* to the bound included.
\* (d <= 0.15 m  <=>  400 d^2 <= 9 m^2)
C15_ClosedWithinTolerance ==
  \A a \in Analysed :
    (a[1] = "services/shapeAnalysisService" /\ a[2] # NULL) =>
      LET allPoints == Flat(drawing)
          xs == {allPoints[i].x : i \in 1..Len(allPoints)}
          ys == {allPoints[i].y : i \in 1..Len(allPoints)}
          m == Min2(SetMax(xs) - SetMin(xs), SetMax(ys) - SetMin(ys))
      IN a[2].isClosed <=>
           400 * Dist2(allPoints[1], allPoints[Len(allPoints)]) <= 9 * m * m

\* the normalized paths the engine has compared: each candidate's
NormalizedPaths == {normalizePathCoordinates(cands[i].path) : i \in 1..Len(cands)}
\* dtw[n][m] of a path against itself
SelfCost(P) ==
  dtwRows(P, P, 1, [j \in 1..(Len(P) + 1) |-> IF j = 1 THEN 0 ELSE Inf])[Len(P) + 1]

\* C16: for every normalized path the engine compares, the DTW matrix of the
\* path against itself ends with cost 0 and both directed Hausdorff distances
\* are 0, so its DTW similarity and its Hausdorff similarity to itself are 1.
C16_SelfSimilarityIsOne ==
  \A P \in NormalizedPaths :
    /\ SelfCost(P) = 0
    /\ directedHausdorffDistance(P, P) = 0
    /\ calculateDTWSimilarity(P, P) = 1000
    /\ calculateHausdorffSimilarity(P, P) = 1000

C16_Witness ==
  /\ Done
  /\ Logged("offline_ok")
  /\ \E P \in NormalizedPaths :
       /\ Len(P) >= 4
       /\ \A i, j \in 1..Len(P) : i # j => P[i] # P[j]
  /\ \E P \in NormalizedPaths : Len(P) = 2

\* C17: once the geocoder has answered a call of findMatchingRoutes with no
\* match, no Overpass fetch is issued and no fallback search is started, and
\* the call ends rejected.
C17_NoMatchSurfaced ==
  Observed("nominatim", {"nomatch"}) =>
    /\ ~Logged("overpass")
    /\ ~Logged("fb_overpass")
    /\ Done => outcome = "rejected"

\* the sum of a profile's weights
WeightSum(w) == SumSeq([i \in 1..4 |-> w[(<<"geometric", "dtw", "feature", "spatial">>)[i]]])
OfflineWeightSum(w) == w.dtw + w.hausdorff + w.fourier + w.geometric
\* the candidate's four metric values are one value
Unanimous(a) ==
  /\ a.way.metrics # <<>>
  /\ \A k \in 1..4 : a.way.metrics[k] = a.way.metrics[1]

C19_CandidatesNearCentre ==
  Logged("offline_ok") =>
    /\ \A i \in 1..Len(cands) : Len(cands[i].path) >= 2
    /\ \A i, j \in 1..Len(cands) :
         haversineDistance(cands[i].path[1], cands[j].path[1]) <= 20000

\* C20: the candidates of one search have their durations from one mode's
\* speed: there is a mode m (the one requested) with duration =
\* distance / speed(m) * 60 for every candidate, and candidates of equal
\* distance have equal durations.
C20_DurationFromRequestedMode ==
  PrimaryResult =>
    /\ \E m \in Modes :
         \A i \in 1..Len(cands) : cands[i].duration = estimateDuration(cands[i].distance, m)
    /\ \A i, j \in 1..Len(cands) :
         cands[i].distance = cands[j].distance => cands[i].duration = cands[j].duration

\* ------------------------- the AI strategy with geometric validation
\* a / b > 10 for a, b >= 0 in floating point: a / 0 is Infinity for a > 0
\* and NaN for a = 0
Over10(a, b) == IF b = 0 THEN a > 0 ELSE a > 10 * b

\* the issue/recommendation pairs of validateShape, in the order of its checks;
\* drawing.flat() of no point has width = height = -Infinity (too small, and
\* width / height = NaN is not thin)
ShapeChecks(d) ==
  LET allPoints == Flat(d)
      uniquePoints == SelectSeq([i \in 1..Len(allPoints) |-> i],
                                LAMBDA i : i = 1 \/ Dist2(allPoints[i], allPoints[i - 1]) > 1)
      xs == {allPoints[i].x : i \in 1..Len(allPoints)}
      ys == {allPoints[i].y : i \in 1..Len(allPoints)}
      none == Len(allPoints) = 0
      width == IF none THEN 0 ELSE SetMax(xs) - SetMin(xs)
      height == IF none THEN 0 ELSE SetMax(ys) - SetMin(ys)
  IN << <<Len(allPoints) < 3, "Drawing has too few points",
          "Draw a more complete shape with at least 3 points">>,
        <<Len(uniquePoints) < 3, "Drawing points are too close together",
          "Draw with more varied movements to create a distinct shape">>,
        <<none \/ width < 20 \/ height < 20, "Drawing is too small",
          "Draw a larger shape to improve recognition accuracy">>,
        <<~none /\ (Over10(width, height) \/ Over10(height, width)),
          "Shape is too thin or elongated",
          "Try drawing a more balanced shape for better matching">> >>

\* (the last check pushes its issue without a recommendation)
validateShape_noLastRecommendation(d) ==
  IF Len(d) = 0
  THEN [isValid |-> FALSE, issues |-> <<"No drawing provided">>,
        recommendations |-> <<"Draw a shape on the canvas">>]
  ELSE LET checks == ShapeChecks(d)
           found == SelectSeq(checks, LAMBDA c : c[1])
           advised == SelectSeq(SubSeq(checks, 1, 3), LAMBDA c : c[1])
       IN [isValid |-> Len(found) = 0,
           issues |-> [i \in 1..Len(found) |-> found[i][2]],
           recommendations |-> [i \in 1..Len(advised) |-> advised[i][3]]]

\* validateShape
validateShape(d) ==
  IF Len(d) = 0
  THEN [isValid |-> FALSE, issues |-> <<"No drawing provided">>,
        recommendations |-> <<"Draw a shape on the canvas">>]
  ELSE LET found == SelectSeq(ShapeChecks(d), LAMBDA c : c[1])
       IN [isValid |-> Len(found) = 0,
           issues |-> [i \in 1..Len(found) |-> found[i][2]],
           recommendations |-> [i \in 1..Len(found) |-> found[i][3]]]

\* |a - b| > 1.0 and |a - b| * 0.2 (in thousandths) for the aspect ratios
\* a = aw / ah and b = bw / bh as floating point computes them: x / 0 is
\* Infinity for x > 0 and NaN for x = 0; a difference with NaN, or of two
\* infinities, is NaN and compares false; the difference of a finite ratio
\* and Infinity is Infinity
aspectRatioDiff(aw, ah, bw, bh) ==
  LET nan(w, h) == h = 0 /\ w = 0
      inf(w, h) == h = 0 /\ w > 0
  IN IF nan(aw, ah) \/ nan(bw, bh) \/ (inf(aw, ah) /\ inf(bw, bh))
     THEN [over |-> FALSE, fifth |-> 0]
     ELSE IF inf(aw, ah) \/ inf(bw, bh)
     THEN [over |-> TRUE, fifth |-> Inf]
     ELSE [over |-> Abs(aw * bh - bw * ah) > ah * bh,
           fifth |-> (200 * Abs(aw * bh - bw * ah)) \div (ah * bh)]

\* (the aspect-ratio penalty without its floor of 0.6)
validateRouteMatch_noAspectFloor(routePath, originalFeatures) ==
  IF Len(routePath) < 2
  THEN [geometricSimilarity |-> 0, issues |-> <<"Route path is too short">>]
  ELSE LET routePoints == [i \in 1..Len(routePath) |-> Pt(routePath[i][2], routePath[i][1])]
           routeCorners == detectCorners(routePoints)
           routeIsClosed == isClosedPathWithin(routePoints, 1)
           structure == originalFeatures.isClosed # routeIsClosed
           cornerDiff == Abs(Len(originalFeatures.corners) - Len(routeCorners))
           xs == {routePoints[i].x : i \in 1..Len(routePoints)}
           ys == {routePoints[i].y : i \in 1..Len(routePoints)}
           diff == aspectRatioDiff(originalFeatures.aspectRatio[1],
                                   originalFeatures.aspectRatio[2],
                                   SetMax(xs) - SetMin(xs), SetMax(ys) - SetMin(ys))
           s1 == IF structure THEN 700 ELSE 1000
           s2 == IF cornerDiff > 2
                 THEN (s1 * Max2(500, 1000 - cornerDiff * 100)) \div 1000 ELSE s1
           s3 == IF diff.over
                 THEN (s2 * (1000 - Min2(diff.fifth, 2000))) \div 1000 ELSE s2
       IN [geometricSimilarity |-> Max2(0, s3),
           issues |-> SelectSeq(<<IF structure THEN "structure" ELSE "",
                                  IF cornerDiff > 2 THEN "corners" ELSE "",
                                  IF diff.over THEN "aspect" ELSE "">>,
                                LAMBDA e : e # "")]

\* validateRouteMatch: route coordinates are <<lat, lng>> in thousandths of
\* a degree, so the closing tolerance 0.001 is 1
validateRouteMatch(routePath, originalFeatures) ==
  IF Len(routePath) < 2
  THEN [geometricSimilarity |-> 0, issues |-> <<"Route path is too short">>]
  ELSE LET routePoints == [i \in 1..Len(routePath) |-> Pt(routePath[i][2], routePath[i][1])]
           routeCorners == detectCorners(routePoints)
           routeIsClosed == isClosedPathWithin(routePoints, 1)
           structure == originalFeatures.isClosed # routeIsClosed
           cornerDiff == Abs(Len(originalFeatures.corners) - Len(routeCorners))
           xs == {routePoints[i].x : i \in 1..Len(routePoints)}
           ys == {routePoints[i].y : i \in 1..Len(routePoints)}
           diff == aspectRatioDiff(originalFeatures.aspectRatio[1],
                                   originalFeatures.aspectRatio[2],
                                   SetMax(xs) - SetMin(xs), SetMax(ys) - SetMin(ys))
           s1 == IF structure THEN 700 ELSE 1000
           s2 == IF cornerDiff > 2
                 THEN (s1 * Max2(500, 1000 - cornerDiff * 100)) \div 1000 ELSE s1
           s3 == IF diff.over
                 THEN (s2 * Max2(600, 1000 - Min2(diff.fifth, 2000))) \div 1000 ELSE s2
       IN [geometricSimilarity |-> Max2(0, s3),
           issues |-> SelectSeq(<<IF structure THEN "structure" ELSE "",
                                  IF cornerDiff > 2 THEN "corners" ELSE "",
                                  IF diff.over THEN "aspect" ELSE "">>,
                                LAMBDA e : e # "")]

\* the drawings a validated search is run on: no stroke; an empty stroke; two
\* points; a small triangle; three points of which two are a pixel apart; a
\* thin and low stroke; an open corner; a closed square; a zigzag
ValidatedDrawings ==
  { <<>>,
    << <<>> >>,
    << <<Pt(0, 0), Pt(40, 40)>> >>,
    << <<Pt(0, 0), Pt(10, 0), Pt(0, 10)>> >>,
    << <<Pt(0, 0), Pt(1, 0), Pt(40, 40)>> >>,
    << <<Pt(0, 0), Pt(150, 5), Pt(300, 10)>> >>,
    << <<Pt(0, 0), Pt(40, 0), Pt(40, 40)>> >>,
    << <<Pt(0, 0), Pt(40, 0)>>, <<Pt(40, 40), Pt(0, 40), Pt(0, 5)>> >>,
    << <<Pt(0, 0), Pt(20, 40), Pt(40, 0), Pt(60, 40), Pt(80, 0), Pt(100, 40)>> >> }

\* A route of the AI's JSON answer: hasPath tells whether it has a path
\* property, path is <<lat, lng>> pairs in thousandths of a degree
AiRoute(h, p, sc) == [hasPath |-> h, path |-> p, similarityScore |-> sc]

\* the paths an answer can hold: one point; a straight line; a closed square;
\* a line along a parallel; a closed zigzag three times as wide as high; the
\* same location twice
AiPaths ==
  { << <<0, 0>> >>,
    << <<0, 0>>, <<10, 10>> >>,
    << <<0, 0>>, <<0, 10>>, <<10, 10>>, <<10, 0>>, <<0, 0>> >>,
    << <<0, 0>>, <<0, 10>>, <<0, 20>> >>,
    << <<0, 0>>, <<10, 5>>, <<0, 10>>, <<10, 15>>, <<0, 20>>, <<10, 25>>, <<0, 30>>,
       <<0, 0>> >>,
    << <<5, 5>>, <<5, 5>> >> }

AiScores == {500, 700}

AiRoutes ==
  {AiRoute(FALSE, <<>>, 700)} \cup {AiRoute(TRUE, p, sc) : p \in AiPaths, sc \in AiScores}

\* (similarityScore + (geometricSimilarity || 0)) / 2, doubled
combinedScore(a) == a.similarityScore + a.geometricSimilarity

RECURSIVE InsertByCombined(_, _)
InsertByCombined(sorted, x) ==
  IF sorted = <<>> THEN <<x>>
  ELSE IF combinedScore(Head(sorted)) - combinedScore(x) < 0 THEN <<x>> \o sorted
  ELSE <<Head(sorted)>> \o InsertByCombined(Tail(sorted), x)

RECURSIVE SortByCombined(_, _)
\* Array.prototype.sort with scoreB - scoreA: stable
SortByCombined(done, rest) ==
  IF rest = <<>> THEN done
  ELSE SortByCombined(InsertByCombined(done, Head(rest)), Tail(rest))

\* Step 5: the routes with a path of more than 1 point, each with its
\* geometric validation, by combined score
validatedRoutes(answer, shapeFeatures) ==
  LET withPath == SelectSeq(answer, LAMBDA r : r.hasPath /\ Len(r.path) > 1)
  IN SortByCombined(<<>>,
       [i \in 1..Len(withPath) |->
          LET validation == validateRouteMatch(withPath[i].path, shapeFeatures)
          IN [src |-> "ai", path |-> withPath[i].path,
              similarityScore |-> withPath[i].similarityScore,
              geometricSimilarity |-> validation.geometricSimilarity,
              matchingIssues |-> validation.issues]])

\* (no routes are returned when none passes the filter)
aiResult_filteredOnly(validated) ==
  SelectSeq(validated, LAMBDA r : r.geometricSimilarity >= 300 /\ r.similarityScore >= 600)

\* Step 6: the routes with geometricSimilarity >= 0.3 and similarityScore >=
\* 0.6, or the first 3 validated routes when there is none
aiResult(validated) ==
  LET filteredRoutes == SelectSeq(validated, LAMBDA r :
                          r.geometricSimilarity >= 300 /\ r.similarityScore >= 600)
  IN IF Len(filteredRoutes) = 0 THEN Slice0(validated, 3) ELSE filteredRoutes

\* findMatchingRoutes is called: validateShape, then analyzeShape and the
\* request to the AI model; an invalid shape throws
AiCall ==
  /\ pc = "start"
  /\ LET validation == validateShape(drawing)
     IN /\ obs' = Append(obs, <<"validateShape", validation, <<>> >>)
        /\ IF ~validation.isValid \/ analyzeShapeServices(drawing) = NULL
           THEN /\ outcome' = "rejected"
                /\ pc' = "done"
                /\ log' = Append(log, "invalid_shape")
           ELSE /\ pc' = "ai"
                /\ log' = Append(log, "ai")
                /\ UNCHANGED outcome
  /\ UNCHANGED <<drawing, creativity, ways, cands, routes>>
  /\ UNCHANGED <<rerunVars, hookVars>>

\* generateContent rejects or its text is not JSON: the catch block throws
\* "Failed to generate routes from AI"
AiFail ==
  /\ pc = "ai"
  /\ \E f \in {"unreachable", "malformed"} : obs' = Append(obs, <<"ai", f, <<>> >>)
  /\ outcome' = "rejected"
  /\ pc' = "done"
  /\ log' = Append(log, "ai_error")
  /\ UNCHANGED <<drawing, creativity, ways, cands, routes>>
  /\ UNCHANGED <<rerunVars, hookVars>>

\* the answer is JSON but no array: [] is returned
AiNotArray ==
  /\ pc = "ai"
  /\ obs' = Append(obs, <<"ai", "notArray", <<>> >>)
  /\ outcome' = "resolved"
  /\ pc' = "done"
  /\ log' = Append(log, "ai_result")
  /\ UNCHANGED <<drawing, creativity, ways, cands, routes>>
  /\ UNCHANGED <<rerunVars, hookVars>>

\* the answer is an array of up to maxRoutes routes: validate, sort, filter
AiReply(maxRoutes) ==
  /\ pc = "ai"
  /\ \E answer \in SeqsUpTo(AiRoutes, maxRoutes) :
       LET validated == validatedRoutes(answer, analyzeShapeServices(drawing))
       IN /\ obs' = Append(obs, <<"ai", "ok", answer>>)
          /\ cands' = validated
          /\ routes' = aiResult(validated)
  /\ outcome' = "resolved"
  /\ pc' = "done"
  /\ log' = Append(log, "ai_result")
  /\ UNCHANGED <<drawing, creativity, ways>>
  /\ UNCHANGED <<rerunVars, hookVars>>

InitAi ==
  /\ drawing \in ValidatedDrawings
  /\ creativity = "balanced"
  /\ pc = "start"
  /\ ways = <<>>
  /\ cands = <<>>
  /\ routes = <<>>
  /\ outcome = "pending"
  /\ log = <<>>
  /\ obs = <<>>
  /\ NoRerun
  /\ HookIdle

NextAi ==
  \/ AiCall
  \/ AiFail
  \/ AiNotArray
  \/ AiReply(MaxAiRoutes)

SpecAi == InitAi /\ [][NextAi]_vars

\* C21: a route the AI strategy with geometric validation returns has
\* geometricSimilarity of at least 0.3 and similarityScore of at least 0.6.
C21_PoorMatchesFiltered ==
  Logged("ai_result") =>
    \A k \in 1..Len(routes) :
      routes[k].geometricSimilarity >= 300 /\ routes[k].similarityScore >= 600

\* the results validateShape has returned
Validations == {obs[i][2] : i \in {j \in 1..Len(obs) : obs[j][1] = "validateShape"}}

\* C26: in every result of validateShape, isValid is true exactly when issues
\* is empty, and issues and recommendations have the same length.
C26_IssuesPaired ==
  \A v \in Validations :
    /\ v.isValid <=> (Len(v.issues) = 0)
    /\ Len(v.issues) = Len(v.recommendations)

C26_Witness ==
  /\ \E v \in Validations : Len(v.issues) >= 2 /\ v.issues[Len(v.issues)] = "Shape is too thin or elongated"
  /\ Done

\* the greatest score left after k issues: every penalty is a factor of at
\* most 0.8 (structure 0.7, corners at most 0.7, aspect ratio below 0.8)
ScoreCeiling(k) == (<<1000, 800, 560, 392>>)[k + 1]

\* C30: for every validated route (a path of at least 2 points),
\* geometricSimilarity is 1.0 exactly when there are no issues, every issue
\* lowers it (by a factor of at most 0.8), and it is never below 0.21 nor
\* above 1.0.
C30_ScoreReflectsIssues ==
  \A i \in 1..Len(cands) :
    "geometricSimilarity" \in DOMAIN cands[i] =>
      LET g == cands[i].geometricSimilarity
          k == Len(cands[i].matchingIssues)
      IN /\ (g = 1000) <=> (k = 0)
         /\ g <= ScoreCeiling(k)
         /\ g >= 210
         /\ g <= 1000

C30_Witness ==
  /\ Logged("ai_result")
  /\ \E i \in 1..Len(cands) :
       cands[i].geometricSimilarity = 210 /\ Len(cands[i].matchingIssues) = 3
  /\ \E i \in 1..Len(cands) :
       cands[i].geometricSimilarity = 1000 /\ Len(cands[i].matchingIssues) = 0

\* C27: every route a finished call returns has a similarityScore of at least
\* the minimum of the call's creativity profile, whichever stage made it.
C27_ReturnedAboveMinimum ==
  (Done /\ outcome = "resolved") =>
    \A k \in 1..Len(routes) : routes[k].similarityScore >= minSimilarity(creativity)

\* ------------------------------ the degraded stage on ways of any geometry
\* the number of geometry points of a way in the degraded stage's response:
\* 0 for a way without geometry (way.geometry?.map(...) || [])
FbGeometries == {0, 1, 3}

\* getSimpleRoutes maps the first 3 of up to maxWays ways to routes
FbOverpassGeom(maxWays) ==
  /\ pc = "fb_overpass"
  /\ \E fbWays \in SeqsUpTo(FbGeometries, maxWays) :
       \E draws \in [1..Min2(Len(fbWays), 3) -> RandomDraws] :
         /\ Answers(<<"fb_overpass", "ok", fbWays>>)
         /\ routes' = getSimpleRoutesOk(fbWays, draws)
  /\ outcome' = "resolved"
  /\ pc' = "done"
  /\ log' = Append(log, "degraded_result")
  /\ UNCHANGED <<drawing, creativity, ways, cands>>
  /\ UNCHANGED <<rerunVars, hookVars>>

NextDegraded ==
  \/ Call
  \/ GeocodeReply
  \/ OverpassFail
  \/ OverpassOk(MaxRerunWays)
  \/ FbGeocodeReply
  \/ FbOverpassFail
  \/ FbOverpassGeom(MaxGeomWays)

SpecDegraded == Init /\ [][NextDegraded]_vars

\* C28: every route a finished call returns has a path of at least 2 points,
\* also when the provider's ways have no geometry.
C28_PathsHaveTwoPoints ==
  (Done /\ outcome = "resolved") =>
    \A k \in 1..Len(routes) : routes[k].npts >= 2


\* ---------------------------------------------------------------------------
\* utils/security.ts: sanitizeRouteData and the AI variant that applies it
\* (numbers in thousandths; strings are sequences of characters)
\* ---------------------------------------------------------------------------

MaxChars == 502
MaxPoints == 1001
MaxRawRoutes == 1

\* JavaScript values met in the parsed JSON answer
JsNum(n) == [t |-> "number", n |-> n, s |-> <<>>]
JsStr(s) == [t |-> "string", n |-> 0, s |-> s]
JsUndef == [t |-> "undefined", n |-> 0, s |-> <<>>]
JsNaN == [t |-> "NaN", n |-> 0, s |-> <<>>]
JsInf == [t |-> "Infinity", n |-> 0, s |-> <<>>]
JsNegInf == [t |-> "-Infinity", n |-> 0, s |-> <<>>]

Digits == {"0", "2", "5"}
DigitVal(c) == IF c = "2" THEN 2 ELSE IF c = "5" THEN 5 ELSE 0

RECURSIVE DigitPrefix(_)
DigitPrefix(s) ==
  IF s = <<>> \/ s[1] \notin Digits THEN <<>> ELSE <<s[1]>> \o DigitPrefix(Tail(s))

RECURSIVE DecimalOf(_)
DecimalOf(ds) ==
  IF ds = <<>> THEN 0 ELSE 10 * DecimalOf(SubSeq(ds, 1, Len(ds) - 1)) + DigitVal(ds[Len(ds)])

\* parseFloat: a number is itself; a string gives its longest numeric prefix
\* (optional sign, digits) or NaN; undefined gives NaN
parseFloat(v) ==
  IF v.t \in {"number", "NaN", "Infinity", "-Infinity"} THEN v
  ELSE IF v.t # "string" THEN JsNaN
  ELSE LET str == TrimStart(v.s)
           neg == str # <<>> /\ str[1] = "-"
           ds == DigitPrefix(IF neg THEN Tail(str) ELSE str)
       IN IF ds = <<>> THEN JsNaN
          ELSE JsNum((IF neg THEN -1 ELSE 1) * 1000 * DecimalOf(ds))

sanitizeNumber_noUpper(num, min, max) ==
  LET parsed == parseFloat(num)
  IN IF parsed.t = "NaN" THEN min
     ELSE IF parsed.t = "-Infinity" THEN min
     ELSE IF parsed.t = "Infinity" THEN 2 * max + 1
     ELSE Max2(min, parsed.n)

sanitizeNumber(num, min, max) ==
  LET parsed == parseFloat(num)
  IN IF parsed.t = "NaN" THEN min
     ELSE IF parsed.t = "Infinity" THEN Max2(min, max)
     ELSE IF parsed.t = "-Infinity" THEN min
     ELSE Max2(min, Min2(max, parsed.n))

NotAngle(c) == c \notin {"<", ">"}

sanitizeString(str) ==
  IF str.t # "string" THEN <<>>
  ELSE SelectSeq(Slice0(str.s, 500), NotAngle)

\* an element of the answer's path: an array of values, or no array
RawPt(items) == [isArray |-> TRUE, items |-> items]
RawNoArray == [isArray |-> FALSE, items |-> <<>>]

IsPair(point) == point.isArray /\ Len(point.items) = 2

sanitizePath(path) ==
  IF ~path.isArray THEN <<>>
  ELSE LET pairs == SelectSeq(path.items, IsPair)
       IN Slice0([i \in 1..Len(pairs) |->
                    <<sanitizeNumber(pairs[i].items[1], -90000, 90000),
                      sanitizeNumber(pairs[i].items[2], -180000, 180000)>>], 1000)

sanitizeRouteData(rawRoutes) ==
  [i \in 1..Len(rawRoutes) |->
     [routeName |-> sanitizeString(rawRoutes[i].routeName),
      description |-> sanitizeString(rawRoutes[i].description),
      distance |-> sanitizeNumber(rawRoutes[i].distance, 0, 1000000),
      duration |-> sanitizeNumber(rawRoutes[i].duration, 0, 10000000),
      similarityScore |-> sanitizeNumber(rawRoutes[i].similarityScore, 0, 1000),
      path |-> sanitizePath(rawRoutes[i].path)]]

HasPath(route) == Len(route.path) > 1

\* the answers the model draws from
LongString == [i \in 1..MaxChars |-> IF i % 100 = 0 THEN "<" ELSE "a"]
LongPath == [isArray |-> TRUE,
             items |-> [i \in 1..MaxPoints |-> RawPt(<<JsNum(100 * i), JsNum(-200 * i)>>)]]

RawStrings == {JsUndef, JsNum(5000), JsStr(<<"a", "<", "b", ">">>), JsStr(LongString)}

RawNumbers == {JsUndef, JsStr(<<"a">>), JsStr(<<" ", "5", "2", "a">>), JsStr(<<"-", "5">>),
               JsNum(-200), JsNum(500), JsNum(20000000), JsInf}

RawPaths ==
  {RawNoArray,
   [isArray |-> TRUE, items |-> <<>>],
   [isArray |-> TRUE,
    items |-> <<RawPt(<<JsNum(48100), JsNum(11500)>>),
                RawPt(<<JsNum(48100), JsNum(11500), JsNum(0)>>),
                RawNoArray,
                RawPt(<<JsNum(48200), JsNum(11600)>>)>>],
   [isArray |-> TRUE,
    items |-> <<RawPt(<<JsNum(200000), JsNum(-500000)>>),
                RawPt(<<JsUndef, JsStr(<<"a">>)>>),
                RawPt(<<JsNegInf, JsInf>>)>>],
   LongPath}

RawRoute(name, desc, num, score, path) ==
  [routeName |-> name, description |-> desc, distance |-> num, duration |-> num,
   similarityScore |-> score, path |-> path]

RawRoutes ==
  {RawRoute(name, desc, num, score, path) :
     name \in RawStrings, desc \in {JsUndef, JsStr(LongString)},
     num \in RawNumbers, score \in RawNumbers, path \in RawPaths}

SanitizeDrawing == << <<Pt(0, 0), Pt(20, 0), Pt(20, 20)>> >>

\* findMatchingRoutes up to the await of generateContent
SanitizeCall ==
  /\ pc = "start"
  /\ obs' = Append(obs, <<"analyzeShape", "utils/shapeAnalysis", analyzeShapeUtils(drawing)>>)
  /\ pc' = "ai"
  /\ log' = Append(log, "ai")
  /\ UNCHANGED <<drawing, creativity, ways, cands, routes, outcome>>
  /\ UNCHANGED <<rerunVars, hookVars>>

\* generateContent rejects, the text is no JSON, or the JSON is no array:
\* the catch block throws "Failed to generate routes from AI"
SanitizeFail ==
  /\ pc = "ai"
  /\ \E f \in {"unreachable", "malformed", "notArray"} :
       obs' = Append(obs, <<"ai", f, <<>> >>)
  /\ outcome' = "rejected"
  /\ pc' = "done"
  /\ log' = Append(log, "ai_error")
  /\ UNCHANGED <<drawing, creativity, ways, cands, routes>>
  /\ UNCHANGED <<rerunVars, hookVars>>

\* the answer is an array: sanitize every route, keep those with a path
SanitizeReply(maxRoutes) ==
  /\ pc = "ai"
  /\ \E rawRoutes \in SeqsUpTo(RawRoutes, maxRoutes) :
       LET sanitizedRoutes == sanitizeRouteData(rawRoutes)
       IN /\ obs' = Append(obs, <<"sanitizeRouteData", rawRoutes, sanitizedRoutes>>)
          /\ routes' = SelectSeq(sanitizedRoutes, HasPath)
  /\ outcome' = "resolved"
  /\ pc' = "done"
  /\ log' = Append(log, "ai_result")
  /\ UNCHANGED <<drawing, creativity, ways, cands>>
  /\ UNCHANGED <<rerunVars, hookVars>>

InitSanitize ==
  /\ drawing = SanitizeDrawing
  /\ creativity = "balanced"
  /\ pc = "start"
  /\ ways = <<>>
  /\ cands = <<>>
  /\ routes = <<>>
  /\ outcome = "pending"
  /\ log = <<>>
  /\ obs = <<>>
  /\ NoRerun
  /\ HookIdle

NextSanitize ==
  \/ SanitizeCall
  \/ SanitizeFail
  \/ SanitizeReply(MaxRawRoutes)

SpecSanitize == InitSanitize /\ [][NextSanitize]_vars

Sanitized == {j \in 1..Len(obs) : obs[j][1] = "sanitizeRouteData"}

InRange(v, min, max) == min <= v /\ v <= max

SafeString(str) == Len(str) <= 500 /\ \A i \in 1..Len(str) : str[i] \notin {"<", ">"}

SafeRoute(route) ==
  /\ InRange(route.similarityScore, 0, 1000)
  /\ InRange(route.distance, 0, 1000000)
  /\ InRange(route.duration, 0, 10000000)
  /\ Len(route.path) <= 1000
  /\ \A i \in 1..Len(route.path) :
       InRange(route.path[i][1], -90000, 90000) /\ InRange(route.path[i][2], -180000, 180000)
  /\ SafeString(route.routeName)
  /\ SafeString(route.description)

\* C22: after sanitizeRouteData, whatever the values of the answer (missing,
\* non-numeric, out of range, too long), every route has similarityScore in
\* [0,1], distance in [0,1000], duration in [0,10000], a path of at most 1000
\* points with latitude in [-90,90] and longitude in [-180,180], and a
\* routeName and a description without '<' or '>' and of at most 500 characters
C22_SanitizedInRange ==
  \A j \in Sanitized : \A i \in 1..Len(obs[j][3]) : SafeRoute(obs[j][3][i])

\* an answer with an over-long name holding '<', a missing description, an
\* out-of-range distance, a non-numeric score and a path of more than 1000
\* points has been sanitized
C22_Witness ==
  \E j \in Sanitized :
    /\ Len(obs[j][2]) = 1
    /\ obs[j][2][1].routeName = JsStr(LongString)
    /\ obs[j][2][1].description = JsUndef
    /\ obs[j][2][1].distance = JsNum(20000000)
    /\ obs[j][2][1].similarityScore = JsStr(<<"a">>)
    /\ obs[j][2][1].path = LongPath
    /\ Len(obs[j][3][1].path) = 1000
    /\ Len(obs[j][3][1].routeName) = 495
    /\ obs[j][3][1].distance = 1000000
    /\ obs[j][3][1].similarityScore = 0


\* ---------------------------------------------------------------------------
\* utils/errorHandling.ts: retryWithBackoff(fn, maxRetries, delay), one call
\* of it held in reqs[1]
\* ---------------------------------------------------------------------------

MaxRetryCount == 4

RetryCounts == 0..MaxRetryCount
RetryDelays == {500, 1000}
FnErrors == {"network", "status"}

backoff_constant(d, i) == d

\* delay * Math.pow(2, i)
backoff(d, i) == d * Pow2(i)

RetryFrame == reqs[1]

\* retryWithBackoff is called: i = 0
RetryCall ==
  /\ reqs = <<>>
  /\ \E m \in RetryCounts, d \in RetryDelays :
       reqs' = <<[pc |-> "loop", i |-> 0, maxRetries |-> m, delay |-> d,
                  calls |-> <<>>, waits |-> <<>>, result |-> <<>>]>>
  /\ UNCHANGED <<hook, pipeVars, rerunVars>>

\* the loop condition i < maxRetries holds: fn is invoked and awaited
RetryInvoke ==
  /\ reqs # <<>> /\ RetryFrame.pc = "loop"
  /\ RetryFrame.i < RetryFrame.maxRetries
  /\ reqs' = [reqs EXCEPT ![1].pc = "awaiting"]
  /\ UNCHANGED <<hook, pipeVars, rerunVars>>

\* fn resolves: its value is returned
FnResolves ==
  /\ reqs # <<>> /\ RetryFrame.pc = "awaiting"
  /\ reqs' = [reqs EXCEPT ![1].pc = "done",
                          ![1].calls = Append(@, "resolved"),
                          ![1].result = <<"returned", "value">>]
  /\ UNCHANGED <<hook, pipeVars, rerunVars>>

\* fn rejects: the error is rethrown on the last round, else the timer of
\* delay * 2^i is started
FnRejects ==
  /\ reqs # <<>> /\ RetryFrame.pc = "awaiting"
  /\ \E e \in FnErrors :
       IF RetryFrame.i = RetryFrame.maxRetries - 1
       THEN reqs' = [reqs EXCEPT ![1].pc = "done",
                                 ![1].calls = Append(@, e),
                                 ![1].result = <<"thrown", e>>]
       ELSE reqs' = [reqs EXCEPT ![1].pc = "waiting",
                                 ![1].calls = Append(@, e),
                                 ![1].waits = Append(@, backoff(RetryFrame.delay, RetryFrame.i))]
  /\ UNCHANGED <<hook, pipeVars, rerunVars>>

\* the timer fires: i++
RetryTimer ==
  /\ reqs # <<>> /\ RetryFrame.pc = "waiting"
  /\ reqs' = [reqs EXCEPT ![1].pc = "loop", ![1].i = @ + 1]
  /\ UNCHANGED <<hook, pipeVars, rerunVars>>

\* the loop condition fails: throw new Error('Max retries exceeded')
RetryExhausted ==
  /\ reqs # <<>> /\ RetryFrame.pc = "loop"
  /\ RetryFrame.i >= RetryFrame.maxRetries
  /\ reqs' = [reqs EXCEPT ![1].pc = "done",
                          ![1].result = <<"thrown", "Max retries exceeded">>]
  /\ UNCHANGED <<hook, pipeVars, rerunVars>>

NextRetry ==
  \/ RetryCall
  \/ RetryInvoke
  \/ FnResolves
  \/ FnRejects
  \/ RetryTimer
  \/ RetryExhausted

SpecRetry == InitSearch /\ [][NextRetry]_vars

FailedCalls(f) == {k \in 1..Len(f.calls) : f.calls[k] # "resolved"}

\* C23: retryWithBackoff invokes fn at most maxRetries times, returns at the
\* first success without a further invocation, waits delay * 2^i after the
\* i-th failed attempt (counted from 0) before the next attempt, and after the
\* maxRetries-th failure in a row rethrows that last error without a further
\* wait
C23_RetryWithBackoff ==
  reqs # <<>> =>
    LET f == RetryFrame
        failed == Cardinality(FailedCalls(f))
    IN /\ Len(f.calls) <= f.maxRetries
       /\ \A k \in 1..(Len(f.calls) - 1) : f.calls[k] # "resolved"
       /\ (f.calls # <<>> /\ f.calls[Len(f.calls)] = "resolved")
            => (f.pc = "done" /\ f.result[1] = "returned")
       /\ \A k \in 1..Len(f.waits) : f.waits[k] = f.delay * Pow2(k - 1)
       /\ Len(f.waits) = (IF failed = f.maxRetries /\ failed > 0 THEN failed - 1 ELSE failed)
       /\ f.pc = "awaiting" => Len(f.waits) = Len(f.calls)
       /\ (failed = f.maxRetries /\ failed > 0)
            => (f.pc = "done" /\ f.result = <<"thrown", f.calls[f.maxRetries]>>)

\* four attempts failed in a row: three waits of growing length, the last
\* error rethrown
C23_Witness ==
  /\ reqs # <<>>
  /\ RetryFrame.maxRetries = 4
  /\ RetryFrame.calls = <<"network", "network", "status", "network">>
  /\ RetryFrame.waits = <<500, 1000, 2000>>
  /\ RetryFrame.result = <<"thrown", "network">>


\* ---------------------------------------------------------------------------
\* analyzeShape on drawings of one or two strokes in a box that is not square
\* ---------------------------------------------------------------------------

MaxFeaturePoints == 4

FeaturePoints == {Pt(0, 0), Pt(20, 0), Pt(40, 0), Pt(40, 20), Pt(0, 20)}

FeatureStrokes == {s \in SeqsUpTo(FeaturePoints, MaxFeaturePoints) : s # <<>>}

FeatureDrawings ==
  {<<s>> : s \in FeatureStrokes}
    \cup UNION {{<<SubSeq(s, 1, k), SubSeq(s, k + 1, Len(s))>> : k \in 1..(Len(s) - 1)} :
                  s \in FeatureStrokes}

InitFeatures ==
  /\ drawing \in FeatureDrawings
  /\ creativity = "balanced"
  /\ pc = "start"
  /\ ways = <<>>
  /\ cands = <<>>
  /\ routes = <<>>
  /\ outcome = "pending"
  /\ log = <<>>
  /\ obs = <<>>
  /\ NoRerun
  /\ HookIdle

SpecFeatures == InitFeatures /\ [][NextShape]_vars

\* the features shapeAnalysisService.analyzeShape returned for the drawing
ServiceFeatures ==
  {a[2] : a \in {b \in Analysed : b[1] = "services/shapeAnalysisService" /\ b[2] # NULL}}

\* C24: analyzeShape translates to the bounding-box origin and divides both
\* coordinates of every point by the same factor max(width, height), so the
\* shorter dimension spans [0, min/max] and the aspect ratio is kept
C24_UniformScale ==
  \A f \in ServiceFeatures :
    LET allPoints == Flat(drawing)
        b == AnalyzeShape(drawing).boundingBox
        scale == Max2(b.width, b.height)
    IN \A i \in 1..Len(allPoints) :
         /\ f.normalizedPath[i].x = (2000 * (allPoints[i].x - b.minX) + scale) \div (2 * scale)
         /\ f.normalizedPath[i].y = (2000 * (allPoints[i].y - b.minY) + scale) \div (2 * scale)

\* the inner points of the flattened normalized point sequence that satisfy Turn
FlatTurns(d, Turn(_, _, _)) == TurnsOfStroke(Flat(normalizedDrawing(d)), Turn)

\* C25: over the flattened point sequence of the drawing (all strokes
\* concatenated), analyzeShape records an interior point as a corner exactly
\* when its angle is below 135 degrees and counts it as a sharp turn exactly
\* when it is below 90 degrees; so sharpTurns never exceeds corners.length
C25_CornersOfFlattened ==
  \A f \in ServiceFeatures :
    /\ f.corners = FlatTurns(drawing, IsCorner)
    /\ f.sharpTurns = Len(FlatTurns(drawing, IsSharpTurn))
    /\ f.sharpTurns <= Len(f.corners)


\* ---------------------------------------------------------------------------
\* useRouteSearch used sequentially: a call of searchRoutes or clearResults
\* is made only when every earlier search has settled
\* ---------------------------------------------------------------------------

SequentialCall == AllDone /\ SearchCall

\* clearResults
ClearResults ==
  /\ AllDone
  /\ hook' = [hook EXCEPT !.routes = <<>>, !.error = NULL, !.activeRouteIndex = NULL]
  /\ UNCHANGED <<reqs, pipeVars, rerunVars>>

NextSequential ==
  \/ SequentialCall
  \/ ClearResults
  \/ GeocodeAttemptFails
  \/ GeocodeAttemptOk
  \/ FindReply

SpecSequential == InitSearch /\ [][NextSequential]_vars

\* C29: when every search made so far has settled (in success, an empty
\* result, a validation error, a geocoding failure or an AI failure), isLoading
\* is false and the hook does not hold a non-empty routes list together with
\* an error
C29_RoutesOrError ==
  AllDone => (/\ hook.isLoading = FALSE
              /\ ~(hook.routes # <<>> /\ hook.error # NULL))

====
